---- MODULE Spec2Model ----
(***************************************************************************)
(* Resilient fetch-and-extract pipeline of playwright-webrun.              *)
(*                                                                         *)
(*   v1: app/page/v1/services/page_content.py  (run and its helpers)       *)
(*   v2: app/page/v2/services/page_content.py  (get_page_content)          *)
(*                                                                         *)
(* One request is served per behaviour; `api` says by which version.  The  *)
(* browser engine and the text extraction engine are the environment:      *)
(* every call to them is an action whose result (value, timeout, error) is *)
(* chosen nondeterministically.  Texts and HTML are represented by the     *)
(* features the pipeline reads from them (trimmed length, "<body" present, *)
(* phrases contained).                                                     *)
(***************************************************************************)
EXTENDS Integers, Sequences, FiniteSets, TLC

VARIABLES
    api,              \* which service function serves the request: "v1" | "v2"
    \* ---- browser engine: contexts and pages, by handle ----
    ctxOpen,          \* handles of the browsing contexts that are open
    pageOpen,         \* handles of the pages that are open (a page has its context's handle)
    \* ---- v1 run ----
    max_retries,      \* run(..., max_retries)
    v1_pc,            \* position in run / _navigate_with_fallback
    v1_attempt,       \* loop variable `attempt`
    v1_context,       \* local `context` (0 = None)
    v1_page,          \* local `page` (0 = None)
    v1_strategy,      \* index into wait_strategies
    v1_sel,           \* index into selectors_to_try
    v1_html,          \* local `html`
    v1_exc,           \* exception in flight inside the attempt
    v1_last_error,    \* _navigate_with_fallback: last_error
    v1_last_exception,\* run: last_exception
    v1_result,        \* what run returned or raised
    v1_plan,          \* the engine stub: what goto does for each strategy, this attempt
    v1_gotos,         \* strategies page.goto was called with, this attempt, in order
    v1_rescue,        \* strategy -> outcome of the partial-content read after its timeout
    v1_started,       \* attempts started so far
    v1_sleeps,        \* backoff sleeps performed, in seconds, in order
    v1_firstHard,     \* attempt in which navigation first raised a hard network error
    v1_closeRaised,   \* _safe_cleanup of this attempt: page.close() raised
    \* ---- v2 get_page_content ----
    output_format,    \* "text" | "html"
    stealth,          \* a Stealth instance was passed (TRUE) or None (FALSE)
    v2_pc,            \* position in get_page_content and its helpers
    v2_context,       \* _create_stealth_page: local `context` (0 = not created)
    v2_page,          \* get_page_content: local `page` (0 = None)
    v2_strategy,      \* _navigate_with_retry: index i into strategies
    v2_last_error,    \* _navigate_with_retry: last_error
    v2_status_code,   \* status_code (0 = not assigned yet)
    v2_bodyText,      \* document.body.innerText when _check_real_404 ran
    v2_evalRaised,    \* page.evaluate of _check_real_404 raised
    v2_hardError,     \* the classifier raised its HTTPException
    v2_extracted,     \* trimmed length of `extracted` (0 = None or empty)
    v2_exc,           \* exception in flight inside the try body
    v2_outcome,       \* what get_page_content returned or raised
    v2_stages,        \* pipeline stages executed so far, in order
    v2_ctxCloseCalls, \* context.close() calls issued by the request
    v2_pageCloseCalls,\* page.close() calls issued by the request
    v2_primary,       \* trimmed length of what _extract_content_async returned (-1 = nothing yet)
    v2_fallback,      \* trimmed length of what _get_fallback_content returned (-1 = nothing yet)
    v2_swallowed,     \* some best-effort sub-step of the request failed and was passed over
    v2_check,         \* _wait_for_content_render: sub-check in progress (0 = not running)
    v2_found,         \* _wait_for_content_render: value returned ("none" | "True" | "False")
    v2_selector,      \* _extract_job_content: index into JOB_CONTENT_SELECTORS (0 = not running)
    v2_nodes,         \* the page when _extract_job_content ran: selector -> node it matches
    v2_job_content,   \* get_page_content: local `job_content`
    v2_sleeps,        \* _navigate_with_retry: asyncio.sleep calls, in seconds, in order
    v2_raised,        \* _navigate_with_retry: what page.goto raised, strategy by strategy
    v2_html_content,  \* get_page_content: trimmed length of `html_content` (-1 = not read)
    v2_fb,            \* _get_fallback_content, text mode: the page its script ran on and `el`
    \* ---- v2 text path called repeatedly against an extraction stub ----
    rp_stub,          \* what trafilatura.extract returns for the URL: a text, as its lines
    rp_results,       \* what each call so far returned, in order
    rp_user_agent,    \* _create_stealth_page: the user agent the last call drew (0 = none)
    rp_left,          \* seen_short_lines as the last _clean_extracted_text left it
    \* ---- v2 _extract_content_async of concurrent requests ----
    ex_pc,            \* request -> "browser" | "queued" | "extracting" | "done"
    _work_queue,      \* _executor: the calls submitted and not started, in order
    ex_thread,        \* request -> thread that runs (ran) its _extract_with_trafilatura
    \* ---- sessions of concurrent requests ----
    ss_req,           \* request -> its version, max_retries, position and locals
    ss_users,         \* handle of a context/page -> requests that issued a call on it
    \* ---- v2 _handle_route ----
    rt_log,           \* the requests intercepted so far and the calls made on their routes
    \* ---- lifespan ----
    ls_pc,            \* position in lifespan
    ls_playwright,    \* the Playwright driver: "none" | "started" | "stopped"
    ls_browser,       \* the browser: "none" | "open" | "closed"
    playwright_state, \* keys of the module's playwright_state dict
    ls_raised,        \* an exception left (or is leaving) lifespan
    ls_calls,         \* the teardown calls lifespan made, in order
    \* ---- get_network_logs ----
    nl_pc,            \* position in get_network_logs
    include_body,     \* get_network_logs(..., include_body)
    nl_emitted,       \* the page events emitted so far, in order
    logs,             \* local `logs`
    nl_pending,       \* response events whose log_response awaits res.text()
    nl_report         \* the DebugResponse returned: total_logs and logs

engine == <<ctxOpen, pageOpen>>
v1loc  == <<v1_pc, v1_attempt, v1_context, v1_page, v1_strategy, v1_sel, v1_html,
            v1_exc, v1_last_error, v1_last_exception, v1_result>>
v1hist == <<v1_plan, v1_gotos, v1_rescue, v1_started, v1_sleeps, v1_firstHard,
            v1_closeRaised>>
v1vars == <<max_retries, v1loc, v1hist>>
v2in   == <<output_format, stealth>>
v2loc  == <<v2_pc, v2_context, v2_page, v2_strategy, v2_last_error, v2_status_code,
            v2_extracted, v2_exc, v2_outcome>>
v2hist == <<v2_bodyText, v2_evalRaised, v2_hardError, v2_stages, v2_ctxCloseCalls,
            v2_pageCloseCalls>>
v2aux  == <<v2_primary, v2_fallback, v2_swallowed, v2_check, v2_found, v2_selector, v2_nodes,
            v2_job_content>>
v2nav  == <<v2_sleeps, v2_raised, v2_fb, v2_html_content>>
v2vars == <<v2in, v2loc, v2hist, v2aux, v2nav>>
rpvars == <<rp_stub, rp_results, rp_user_agent, rp_left>>
poolvars == <<ex_pc, _work_queue, ex_thread>>
sessvars == <<ss_req, ss_users>>
lifevars == <<ls_pc, ls_playwright, ls_browser, playwright_state, ls_raised, ls_calls>>
netvars == <<nl_pc, include_body, nl_emitted, logs, nl_pending, nl_report>>
svcvars == <<rt_log, lifevars, netvars>>
scen   == <<rpvars, poolvars, sessvars, svcvars>>

-----------------------------------------------------------------------------
(* Bounds of the model *)

MaxRetries == 2      \* max_retries ranges over 0..MaxRetries

(* Program constants *)

V1MinHtmlLen == 500  \* run: len(html.strip()) > 500
BackoffBase == 2     \* run: wait_time = 2**attempt

wait_strategies == <<"domcontentloaded", "commit">>
selectors_to_try == <<"body", "main", "div">>

NoAttempt == 0 - 1

-----------------------------------------------------------------------------
(* Exceptions the engines can raise *)

Exc(cls, msg) == [cls |-> cls, msg |-> msg, status |-> 0]
NoExc == Exc("none", "")
PlaywrightTimeoutError == Exc("PlaywrightTimeoutError", "timeout")
HardNetworkErrors ==
    { Exc("PlaywrightError", "net::ERR_NAME_NOT_RESOLVED"),
      Exc("PlaywrightError", "net::ERR_CONNECTION_REFUSED") }
OtherErrors == { Exc("PlaywrightError", "other"), Exc("Exception", "other") }
EngineErrors == {PlaywrightTimeoutError} \cup OtherErrors
GotoErrors == HardNetworkErrors \cup OtherErrors

IsTimeout(e) == e.cls = "PlaywrightTimeoutError"
IsHardNetworkError(e) == e \in HardNetworkErrors

(* Serialized DOM as the pipeline reads it: trimmed length and whether it   *)
(* contains "<body"; kind/strategy record where it was read.                *)
Html(body, len, kind, strategy) ==
    [body |-> body, len |-> len, kind |-> kind, strategy |-> strategy]
NoHtml == Html(FALSE, 0, "none", 0)
HtmlLens == {0, V1MinHtmlLen, V1MinHtmlLen + 1}
Htmls(kind, strategy) ==
    { Html(b, n, kind, strategy) : b \in BOOLEAN, n \in HtmlLens } \
    { Html(TRUE, 0, kind, strategy) }

RECURSIVE Pow(_, _)
Pow(b, n) == IF n = 0 THEN 1 ELSE b * Pow(b, n - 1)

GotoPlans == [1..Len(wait_strategies) -> {"commit", "timeout", "error"}]
NoPlan == [i \in 1..Len(wait_strategies) |-> "error"]
NoRescue == [i \in 1..Len(wait_strategies) |-> "none"]

-----------------------------------------------------------------------------
(* Engine effects *)

OpenContext(h) == ctxOpen' = ctxOpen \cup {h}
OpenPage(h) == pageOpen' = pageOpen \cup {h}

-----------------------------------------------------------------------------
(* v1: run *)

V1Result(kind, html, attempts, cause) ==
    [kind |-> kind, html |-> html, attempts |-> attempts, cause |-> cause]
V1NoResult == V1Result("none", NoHtml, 0, NoExc)

(* for attempt in range(max_retries + 1) *)
MoreAttempts_OffByOne == v1_attempt <= max_retries + 1
MoreAttempts == v1_attempt < max_retries + 1

(* an exception leaves the try body of run *)
V1Raise(e) ==
    /\ v1_exc' = e
    /\ v1_pc' = "except"

V1StartAttempt ==
    /\ api = "v1" /\ v1_pc = "loop"
    /\ MoreAttempts
    /\ v1_context' = 0
    /\ v1_page' = 0
    /\ v1_started' = v1_started + 1
    /\ v1_pc' = "new_context"
    /\ UNCHANGED <<scen, v2vars, api, engine, max_retries, v1_attempt, v1_strategy, v1_sel, v1_html,
                   v1_exc, v1_last_error, v1_last_exception, v1_result,
                   v1_plan, v1_gotos, v1_rescue, v1_sleeps, v1_firstHard,
                   v1_closeRaised>>

V1NewContext ==
    /\ api = "v1" /\ v1_pc = "new_context"
    /\ \/ /\ OpenContext(v1_attempt + 1)
          /\ v1_context' = v1_attempt + 1
          /\ v1_pc' = "route"
          /\ UNCHANGED v1_exc
       \/ /\ \E e \in EngineErrors : V1Raise(e)
          /\ UNCHANGED <<ctxOpen, v1_context>>
    /\ UNCHANGED <<scen, v2vars, api, pageOpen,
                   max_retries, v1_attempt, v1_page, v1_strategy, v1_sel, v1_html,
                   v1_last_error, v1_last_exception, v1_result, v1hist>>

V1ContextRoute ==
    /\ api = "v1" /\ v1_pc = "route"
    /\ \/ /\ v1_pc' = "new_page"
          /\ UNCHANGED v1_exc
       \/ \E e \in EngineErrors : V1Raise(e)
    /\ UNCHANGED <<scen, v2vars, api, engine, max_retries, v1_attempt, v1_context, v1_page,
                   v1_strategy, v1_sel, v1_html, v1_last_error, v1_last_exception,
                   v1_result, v1hist>>

V1NewPage ==
    /\ api = "v1" /\ v1_pc = "new_page"
    /\ \/ /\ OpenPage(v1_context)
          /\ v1_page' = v1_context
          /\ v1_pc' = "stealth"
          /\ UNCHANGED v1_exc
       \/ /\ \E e \in EngineErrors : V1Raise(e)
          /\ UNCHANGED <<pageOpen, v1_page>>
    /\ UNCHANGED <<scen, v2vars, api, ctxOpen,
                   max_retries, v1_attempt, v1_context, v1_strategy, v1_sel, v1_html,
                   v1_last_error, v1_last_exception, v1_result, v1hist>>

(* stealth_async(page), then entry of _navigate_with_fallback *)
V1StealthAsync ==
    /\ api = "v1" /\ v1_pc = "stealth"
    /\ \/ /\ v1_pc' = "goto"
          /\ v1_strategy' = 1
          /\ v1_last_error' = NoExc
          /\ v1_plan' \in GotoPlans
          /\ v1_gotos' = <<>>
          /\ v1_rescue' = NoRescue
          /\ UNCHANGED v1_exc
       \/ /\ \E e \in EngineErrors : V1Raise(e)
          /\ UNCHANGED <<v1_strategy, v1_last_error, v1_plan, v1_gotos, v1_rescue>>
    /\ UNCHANGED <<scen, v2vars, api, engine, max_retries, v1_attempt, v1_context, v1_page, v1_sel,
                   v1_html, v1_last_exception, v1_result, v1_started, v1_sleeps,
                   v1_firstHard, v1_closeRaised>>

(* _navigate_with_fallback: page.goto(url, timeout=45000, wait_until=strategy) *)
V1Goto ==
    /\ api = "v1" /\ v1_pc = "goto"
    /\ v1_gotos' = Append(v1_gotos, v1_strategy)
    /\ \/ /\ v1_plan[v1_strategy] = "commit"
          /\ v1_sel' = 1
          /\ v1_pc' = "wait_content"
          /\ UNCHANGED <<v1_exc, v1_last_error, v1_firstHard>>
       \/ /\ v1_plan[v1_strategy] = "timeout"
          /\ v1_last_error' = PlaywrightTimeoutError
          /\ v1_pc' = "rescue"
          /\ UNCHANGED <<v1_exc, v1_sel, v1_firstHard>>
       \/ /\ v1_plan[v1_strategy] = "error"
          /\ \E e \in GotoErrors :
                /\ V1Raise(e)
                /\ v1_firstHard' = IF IsHardNetworkError(e) /\ v1_firstHard = NoAttempt
                                   THEN v1_attempt ELSE v1_firstHard
          /\ UNCHANGED <<v1_sel, v1_last_error>>
    /\ UNCHANGED <<scen, v2vars, api, engine, max_retries, v1_attempt, v1_context, v1_page,
                   v1_strategy, v1_html, v1_last_exception, v1_result,
                   v1_plan, v1_rescue, v1_started, v1_sleeps, v1_closeRaised>>

(* _wait_for_content: one wait_for_selector(selector, state="visible") *)
V1WaitForSelector ==
    /\ api = "v1" /\ v1_pc = "wait_content"
    /\ \/ /\ v1_pc' = "content"                      \* visible; sleep(0.5); return
          /\ UNCHANGED <<v1_sel, v1_exc>>
       \/ /\ IF v1_sel < Len(selectors_to_try)       \* PlaywrightTimeoutError: continue
             THEN v1_sel' = v1_sel + 1 /\ v1_pc' = "wait_content"
             ELSE v1_sel' = v1_sel /\ v1_pc' = "content"
          /\ UNCHANGED v1_exc
       \/ /\ \E e \in OtherErrors : V1Raise(e)       \* not caught before run
          /\ UNCHANGED v1_sel
    /\ UNCHANGED <<scen, v2vars, api, engine, max_retries, v1_attempt, v1_context, v1_page,
                   v1_strategy, v1_html, v1_last_error, v1_last_exception, v1_result,
                   v1hist>>

(* _navigate_with_fallback: return await page.content() *)
V1PageContent ==
    /\ api = "v1" /\ v1_pc = "content"
    /\ \/ /\ \E h \in Htmls("committed", v1_strategy) : v1_html' = h
          /\ v1_pc' = "check_len"
          /\ UNCHANGED <<v1_exc, v1_last_error>>
       \/ /\ v1_last_error' = PlaywrightTimeoutError  \* caught by the strategy's except
          /\ v1_pc' = "rescue"
          /\ UNCHANGED <<v1_exc, v1_html>>
       \/ /\ \E e \in OtherErrors : V1Raise(e)
          /\ UNCHANGED <<v1_html, v1_last_error>>
    /\ UNCHANGED <<scen, v2vars, api, engine, max_retries, v1_attempt, v1_context, v1_page,
                   v1_strategy, v1_sel, v1_last_exception, v1_result, v1hist>>

(* "<body" in html.lower(), for a non-empty html *)
HasBody_AnyHtml(h) == h.len > 0
HasBody(h) == h.len > 0 /\ h.body

(* the strategy loop continues; after the last strategy: raise last_error *)
V1NextStrategy_GiveUp ==
    /\ V1Raise(v1_last_error)
    /\ UNCHANGED v1_strategy
V1NextStrategy ==
    IF v1_strategy < Len(wait_strategies)
    THEN /\ v1_strategy' = v1_strategy + 1
         /\ v1_pc' = "goto"
         /\ UNCHANGED v1_exc
    ELSE /\ V1Raise(v1_last_error)
         /\ UNCHANGED v1_strategy

(* except PlaywrightTimeoutError: read whatever content loaded *)
V1Rescue ==
    /\ api = "v1" /\ v1_pc = "rescue"
    /\ \/ \E h \in Htmls("partial", v1_strategy) :
            IF HasBody(h)
            THEN /\ v1_html' = h
                 /\ v1_pc' = "check_len"
                 /\ v1_rescue' = [v1_rescue EXCEPT ![v1_strategy] = "body"]
                 /\ UNCHANGED <<v1_exc, v1_strategy>>
            ELSE /\ V1NextStrategy
                 /\ v1_rescue' = [v1_rescue EXCEPT ![v1_strategy] = "nobody"]
                 /\ UNCHANGED v1_html
       \/ /\ V1NextStrategy                          \* except Exception: pass
          /\ v1_rescue' = [v1_rescue EXCEPT ![v1_strategy] = "raised"]
          /\ UNCHANGED v1_html
    /\ UNCHANGED <<scen, v2vars, api, engine, max_retries, v1_attempt, v1_context, v1_page, v1_sel,
                   v1_last_error, v1_last_exception, v1_result,
                   v1_plan, v1_gotos, v1_started, v1_sleeps, v1_firstHard,
                   v1_closeRaised>>

(* run: if html and len(html.strip()) > 500: return html, else raise *)
ContentLongEnough_AtLeast(h) == h.len >= V1MinHtmlLen
ContentLongEnough(h) == h.len > V1MinHtmlLen

V1CheckLen ==
    /\ api = "v1" /\ v1_pc = "check_len"
    /\ IF ContentLongEnough(v1_html)
       THEN /\ v1_result' = V1Result("html", v1_html, v1_attempt + 1, NoExc)
            /\ v1_pc' = "cleanup"
            /\ UNCHANGED v1_exc
       ELSE /\ V1Raise(Exc("ScrapingError", "Retrieved content too short"))
            /\ UNCHANGED v1_result
    /\ UNCHANGED <<scen, v2vars, api, engine, max_retries, v1_attempt, v1_context, v1_page,
                   v1_strategy, v1_sel, v1_html, v1_last_error, v1_last_exception,
                   v1hist>>

(* the three except clauses of run: each records the exception and falls to finally *)
V1Except ==
    /\ api = "v1" /\ v1_pc = "except"
    /\ v1_last_exception' = v1_exc
    /\ v1_exc' = NoExc
    /\ v1_pc' = "cleanup"
    /\ UNCHANGED <<scen, v2vars, api, engine, max_retries, v1_attempt, v1_context, v1_page,
                   v1_strategy, v1_sel, v1_html, v1_last_error, v1_result, v1hist>>

(* Engine: page.close() and context.close().  Closing a context closes its   *)
(* page.  A page.close() that raises leaves the page open.  A context.close() *)
(* that raises does so because the context is already gone underneath, so the *)
(* handle is not open afterwards either.                                      *)
ClosePage(h, ok) ==
    /\ pageOpen' = IF ok THEN pageOpen \ {h} ELSE pageOpen
    /\ UNCHANGED ctxOpen

CloseContext_PageOnly(h) ==
    /\ pageOpen' = pageOpen \ {h}
    /\ UNCHANGED ctxOpen
CloseContext(h) ==
    /\ ctxOpen' = ctxOpen \ {h}
    /\ pageOpen' = pageOpen \ {h}

(* _safe_cleanup(page, context) as if page.close() were not guarded: its error *)
(* would skip context.close()                                                  *)
SafeCleanup_Unguarded(page, context, pageOk) ==
    IF page # 0 /\ ~pageOk THEN ClosePage(page, pageOk)
    ELSE IF context # 0 THEN CloseContext(context)
    ELSE UNCHANGED engine

(* _safe_cleanup(page, context): each close in its own try/except, so that    *)
(* context.close() runs whatever page.close() did                             *)
SafeCleanup(page, context, pageOk) ==
    IF context # 0 THEN CloseContext(context)
    ELSE IF page # 0 THEN ClosePage(page, pageOk)
    ELSE UNCHANGED engine

(* finally: await _safe_cleanup(page, context); then return, or fall to the backoff *)
V1Finally ==
    /\ api = "v1" /\ v1_pc = "cleanup"
    /\ \E pageOk \in (IF v1_page # 0 THEN BOOLEAN ELSE {TRUE}) :
          /\ SafeCleanup(v1_page, v1_context, pageOk)
          /\ v1_closeRaised' = ~pageOk
    /\ v1_pc' = IF v1_result.kind = "html" THEN "done" ELSE "backoff"
    /\ UNCHANGED <<scen, v2vars, api, max_retries, v1_attempt, v1_context, v1_page, v1_strategy,
                   v1_sel, v1_html, v1_exc, v1_last_error, v1_last_exception,
                   v1_result, v1_plan, v1_gotos, v1_rescue, v1_started, v1_sleeps,
                   v1_firstHard>>

(* if attempt < max_retries: await asyncio.sleep(2**attempt); next iteration *)
BackoffDue == v1_attempt < max_retries
(* a linear wait in place of wait_time = 2**attempt *)
WaitTime_Linear == BackoffBase * v1_attempt
WaitTime == Pow(BackoffBase, v1_attempt)

V1Backoff ==
    /\ api = "v1" /\ v1_pc = "backoff"
    /\ v1_sleeps' = IF BackoffDue THEN Append(v1_sleeps, WaitTime) ELSE v1_sleeps
    /\ v1_attempt' = v1_attempt + 1
    /\ v1_pc' = "loop"
    \* the iteration's locals are dead until the next iteration rebinds them
    /\ v1_context' = 0 /\ v1_page' = 0 /\ v1_strategy' = 1 /\ v1_sel' = 1
    /\ v1_html' = NoHtml /\ v1_last_error' = NoExc
    /\ v1_plan' = NoPlan /\ v1_gotos' = <<>> /\ v1_rescue' = NoRescue
    /\ v1_closeRaised' = FALSE
    /\ UNCHANGED <<scen, v2vars, api, engine, max_retries, v1_exc, v1_last_exception, v1_result,
                   v1_started, v1_firstHard>>

(* raise ScrapingError(f"Failed to scrape {url} after {max_retries + 1} attempts") *)
V1RaiseTerminal ==
    /\ api = "v1" /\ v1_pc = "loop"
    /\ ~MoreAttempts
    /\ v1_result' = V1Result("ScrapingError", NoHtml, max_retries + 1, v1_last_exception)
    /\ v1_pc' = "done"
    /\ UNCHANGED <<scen, v2vars, api, engine, max_retries, v1_attempt, v1_context, v1_page,
                   v1_strategy, v1_sel, v1_html, v1_exc, v1_last_error,
                   v1_last_exception, v1hist>>

V1Next ==
    \/ V1StartAttempt \/ V1NewContext \/ V1ContextRoute \/ V1NewPage \/ V1StealthAsync
    \/ V1Goto \/ V1WaitForSelector \/ V1PageContent \/ V1Rescue \/ V1CheckLen
    \/ V1Except \/ V1Finally \/ V1Backoff \/ V1RaiseTerminal

-----------------------------------------------------------------------------
(* v2: get_page_content *)

RealNotFoundLen == 300    \* _check_real_404: text.length < 300
JobSelectorMinLen == 100  \* _extract_job_content: len(text.strip()) > 100
JobDirectMinLen == 200    \* get_page_content: len(job_content) > 200
JobCleanedMinLen == 150   \* get_page_content: len(cleaned) > 150
HtmlMinLen == 100         \* get_page_content: len(html_content.strip()) < 100
ExtractMinLen == 50       \* get_page_content: len(extracted.strip()) < 50

HTTP_204_NO_CONTENT == 204
HTTP_404_NOT_FOUND == 404
HTTP_408_REQUEST_TIMEOUT == 408
HTTP_500_INTERNAL_SERVER_ERROR == 500
HTTP_502_BAD_GATEWAY == 502

strategies == <<"commit", "domcontentloaded">>
FallbackNodeMinLen == 200  \* _get_fallback_content: el.innerText.length > 200
NavRetryPause == 1      \* _navigate_with_retry: await asyncio.sleep(1)

JOB_CONTENT_SELECTORS ==
    << "[data-testid=\"job-detail\"]", "[data-testid=\"job-description\"]",
       "[class*=\"job-description\"]", "[class*=\"jobDescription\"]",
       "[class*=\"JobDescription\"]", "[class*=\"position-description\"]",
       "[class*=\"job-detail\"]", "[class*=\"jobDetail\"]",
       "[class*=\"job-content\"]", "[class*=\"jobContent\"]",
       "[class*=\"career-detail\"]", "[id*=\"job-description\"]",
       "[id*=\"jobDescription\"]", "article[class*=\"job\"]",
       "section[class*=\"job\"]", "div[class*=\"job\"][class*=\"detail\"]" >>

GENERIC_CONTENT_SELECTORS ==
    << "article", "main", "[role=\"main\"]", ".content", "#content",
       "#main-content", ".main-content" >>

HTTPException(status) == [cls |-> "HTTPException", msg |-> "detail", status |-> status]
AsyncioTimeoutError == Exc("asyncio.TimeoutError", "")
V2EngineErrors == EngineErrors \cup {AsyncioTimeoutError}
V2GotoErrors == GotoErrors \cup {PlaywrightTimeoutError, AsyncioTimeoutError}

(* responses of page.goto: a status, or no response object at all *)
NoResponse == 0
Responses == {NoResponse, 200, 400, 404, 500}
(* status_code = response.status if response else 200 *)
StatusCodeOf(response) == IF response = NoResponse THEN 200 ELSE response

(* document.body.innerText, lower-cased, as _check_real_404 reads it: its    *)
(* length, whether it includes a not-found phrase, whether it includes a job *)
(* term                                                                      *)
BodyLens == {0, RealNotFoundLen - 1, RealNotFoundLen, RealNotFoundLen + 1}
BodyTexts ==
    { t \in [len : BodyLens, notFound : BOOLEAN, jobTerm : BOOLEAN] :
        t.len = 0 => ~t.notFound /\ ~t.jobTerm }
NoText == [len |-> 0, notFound |-> FALSE, jobTerm |-> FALSE]

(* the script of _check_real_404 *)
RealNotFound_IgnoresLength(text) == ~text.jobTerm
RealNotFound_NoJobTerms(text) ==
    IF text.len < RealNotFoundLen THEN text.notFound ELSE TRUE
RealNotFound(text) ==
    IF text.len < RealNotFoundLen THEN text.notFound ELSE ~text.jobTerm

(* _check_real_404: the script's value, or True when page.evaluate raises *)
CheckReal404_RaiseIsSoft(text, raised) == IF raised THEN FALSE ELSE RealNotFound(text)
CheckReal404(text, raised) == IF raised THEN TRUE ELSE RealNotFound(text)

(* status of the HTTPException the classifier raises *)
ClassifierStatus_Swapped(status_code) ==
    IF status_code = 404 THEN HTTP_502_BAD_GATEWAY ELSE HTTP_404_NOT_FOUND
ClassifierStatus(status_code) ==
    IF status_code = 404 THEN HTTP_404_NOT_FOUND ELSE HTTP_502_BAD_GATEWAY

(* if status_code >= 400 *)
IsHttpError(status_code) == status_code >= 400

(* the except clauses of get_page_content *)
HandleException_NoCatchAll(e) ==
    IF e.cls = "HTTPException" THEN e
    ELSE IF e.cls = "asyncio.TimeoutError" THEN HTTPException(HTTP_408_REQUEST_TIMEOUT)
    ELSE e
HandleException(e) ==
    IF e.cls = "HTTPException" THEN e
    ELSE IF e.cls = "asyncio.TimeoutError" THEN HTTPException(HTTP_408_REQUEST_TIMEOUT)
    ELSE HTTPException(HTTP_500_INTERNAL_SERVER_ERROR)

V2Outcome(kind, len, source, exc) ==
    [kind |-> kind, len |-> len, source |-> source, exc |-> exc]
V2NoOutcome == V2Outcome("none", 0, "none", NoExc)
V2Content(len, source) == V2Outcome("content", len, source, NoExc)
V2Raised(e) == V2Outcome("raised", 0, "none", e)

(* A DOM node as the structural selectors see it: the length of its trimmed   *)
(* inner text and the length _clean_extracted_text leaves of that text.      *)
(* NoNode: the selector matches nothing (or a node without text); it is also *)
(* the None of _extract_job_content                                          *)
Node(len, cleaned) == [len |-> len, cleaned |-> cleaned]
NoNode == Node(0, 0)
Nodes ==
    { NoNode,
      Node(JobSelectorMinLen, JobSelectorMinLen),
      Node(JobDirectMinLen, JobDirectMinLen),
      Node(JobDirectMinLen + 1, JobCleanedMinLen),
      Node(JobDirectMinLen + 1, JobCleanedMinLen + 1) }
(* pages: what each selector of JOB_CONTENT_SELECTORS matches; the selectors *)
(* outside MatchedSelectors match nothing                                    *)
MatchedSelectors == {1, Len(JOB_CONTENT_SELECTORS)}
Pages ==
    { [i \in 1..Len(JOB_CONTENT_SELECTORS) |->
          IF i \in MatchedSelectors THEN f[i] ELSE NoNode] :
        f \in [MatchedSelectors -> Nodes] }
SerializedLens == {0, HtmlMinLen - 1, HtmlMinLen}
ExtractLens == {0, ExtractMinLen - 1, ExtractMinLen}
FallbackLens == {0, 1, ExtractMinLen}
NoPrimary == 0 - 1
NoHtmlContent == 0 - 1

(* _get_fallback_content, text mode: the selectors of its script in order; a *)
(* page is, for each selector, the length of the innerText of the first node *)
(* it matches (NoMatch: querySelector returns null) and, at index 0, of      *)
(* document.body                                                             *)
FallbackSelectors ==
    << "[class*=\"job-description\"]", "[class*=\"jobDescription\"]",
       "[class*=\"job-detail\"]", "[class*=\"position\"]",
       "article", "main", "[role=\"main\"]" >>
NoMatch == 0 - 1
FallbackMatched == {1, Len(FallbackSelectors)}
FallbackPages ==
    { [i \in 0..Len(FallbackSelectors) |->
          IF i = 0 THEN ExtractMinLen ELSE IF i \in FallbackMatched THEN f[i] ELSE NoMatch] :
        f \in [FallbackMatched -> {NoMatch, FallbackNodeMinLen, FallbackNodeMinLen + 1}] }
InnerTextLen(page, el) == page[el]
NoFb == [page |-> <<>>, el |-> NoMatch]

(* let el = null; for (const s of selectors) { el = document.querySelector(s); *)
(* if (el && el.innerText.length > 200) break; }  if (!el) el = document.body  *)
(* el is given as the index of the selector that matched it, 0 for the body   *)
RECURSIVE FallbackLoop(_, _, _)
FallbackLoop(page, s, el) ==
    IF s > Len(FallbackSelectors) THEN el
    ELSE IF page[s] # NoMatch /\ page[s] > FallbackNodeMinLen THEN s
    ELSE FallbackLoop(page, s + 1, IF page[s] # NoMatch THEN s ELSE 0)
FallbackElement(page) == FallbackLoop(page, 1, 0)
NoFallback == 0 - 1
NoNodes == <<>>

ExtractionStages == {"job_extract", "serialize", "extract", "fallback"}
StagesRun == { v2_stages[i] : i \in 1..Len(v2_stages) }
Stage(name) == v2_stages' = Append(v2_stages, name)

V2Raise(e) ==
    /\ v2_exc' = e
    /\ v2_pc' = "except"

V2Return(len, source) ==
    /\ v2_outcome' = V2Content(len, source)
    /\ v2_pc' = "finally"

(* _create_stealth_page: browser.new_context(...) *)
V2NewContext ==
    /\ api = "v2" /\ v2_pc = "new_context"
    /\ Stage("session")
    /\ \/ /\ OpenContext(1)
          /\ v2_context' = 1
          /\ v2_pc' = IF stealth THEN "apply_stealth" ELSE "new_page"
          /\ UNCHANGED v2_exc
       \/ /\ \E e \in V2EngineErrors : V2Raise(e)
          /\ UNCHANGED <<ctxOpen, v2_context>>
    /\ UNCHANGED <<scen, v2nav, v2aux, v1vars, api, pageOpen, v2in, v2_page, v2_strategy, v2_last_error,
                   v2_status_code, v2_extracted, v2_outcome, v2_bodyText,
                   v2_evalRaised, v2_hardError, v2_ctxCloseCalls, v2_pageCloseCalls>>

(* _create_stealth_page: stealth.apply_stealth_async(context), errors logged *)
V2ApplyStealth ==
    /\ api = "v2" /\ v2_pc = "apply_stealth"
    /\ v2_pc' = "new_page"
    /\ UNCHANGED <<scen, v2nav, v2aux, v1vars, api, engine, v2in, v2_context, v2_page, v2_strategy,
                   v2_last_error, v2_status_code, v2_extracted, v2_exc, v2_outcome,
                   v2hist>>

(* _create_stealth_page: context.new_page() *)
V2NewPage ==
    /\ api = "v2" /\ v2_pc = "new_page"
    /\ \/ /\ OpenPage(v2_context)
          /\ v2_pc' = "page_route"
          /\ UNCHANGED v2_exc
       \/ /\ \E e \in V2EngineErrors : V2Raise(e)
          /\ UNCHANGED pageOpen
    /\ UNCHANGED <<scen, v2nav, v2aux, v1vars, api, ctxOpen, v2in, v2_context, v2_page, v2_strategy,
                   v2_last_error, v2_status_code, v2_extracted, v2_outcome, v2hist>>

(* _create_stealth_page: page.route(pattern, _handle_route); return page;  *)
(* get_page_content binds its local `page` only when the helper returns      *)
V2PageRoute ==
    /\ api = "v2" /\ v2_pc = "page_route"
    /\ \/ /\ v2_page' = v2_context
          /\ v2_strategy' = 1
          /\ v2_last_error' = NoExc
          /\ v2_pc' = "goto"
          /\ UNCHANGED v2_exc
       \/ /\ \E e \in V2EngineErrors : V2Raise(e)
          /\ UNCHANGED <<v2_page, v2_strategy, v2_last_error>>
    /\ UNCHANGED <<scen, v2nav, v2aux, v1vars, api, engine, v2in, v2_context, v2_status_code,
                   v2_extracted, v2_outcome, v2hist>>

(* "net::err_name_not_resolved" / "net::err_connection_refused" in str(e).lower() *)
V2IsHardNetworkError_Never(e) == FALSE
V2IsHardNetworkError(e) ==
    e.msg \in {"net::ERR_NAME_NOT_RESOLVED", "net::ERR_CONNECTION_REFUSED"}

(* _navigate_with_retry: page.goto(url, **strategy) and its except clause *)
V2Goto ==
    /\ api = "v2" /\ v2_pc = "goto"
    /\ Stage("navigate")
    /\ \/ \E response \in Responses :
            /\ v2_status_code' = StatusCodeOf(response)
            /\ v2_pc' = IF strategies[v2_strategy] = "commit"
                        THEN "load_state" ELSE "render"
            /\ v2_last_error' = NoExc       \* return response: last_error is dead
            /\ UNCHANGED <<v2_exc, v2_strategy, v2nav>>
       \/ \E e \in V2GotoErrors :
            /\ v2_last_error' = e
            /\ v2_raised' = Append(v2_raised, e)
            /\ IF V2IsHardNetworkError(e)
               THEN V2Raise(e) /\ UNCHANGED <<v2_strategy, v2_sleeps>>
               ELSE IF v2_strategy < Len(strategies)
               THEN /\ v2_sleeps' = Append(v2_sleeps, NavRetryPause)  \* asyncio.sleep(1)
                    /\ v2_strategy' = v2_strategy + 1               \* next strategy
                    /\ v2_pc' = "goto"
                    /\ UNCHANGED v2_exc
               ELSE V2Raise(e) /\ UNCHANGED <<v2_strategy, v2_sleeps>>  \* raise last_error
            /\ UNCHANGED v2_status_code
    /\ UNCHANGED <<scen, v2_fb, v2_html_content, v2aux, v1vars, api, engine, v2in, v2_context, v2_page, v2_extracted,
                   v2_outcome, v2_bodyText, v2_evalRaised, v2_hardError,
                   v2_ctxCloseCalls, v2_pageCloseCalls>>

(* _navigate_with_retry: wait_for_load_state("domcontentloaded"), errors passed *)
V2WaitLoadState ==
    /\ api = "v2" /\ v2_pc = "load_state"
    /\ v2_pc' = "render"
    /\ UNCHANGED <<scen, v2nav, v2aux, v1vars, api, engine, v2in, v2_context, v2_page, v2_strategy,
                   v2_last_error, v2_status_code, v2_extracted, v2_exc, v2_outcome,
                   v2hist>>

(* the sub-checks of _wait_for_content_render, in the order it makes them *)
RenderChecks_GenericFirst ==
    <<"networkidle">> \o GENERIC_CONTENT_SELECTORS \o JOB_CONTENT_SELECTORS
        \o <<"innerText.length > 300">>
RenderChecks ==
    <<"networkidle">> \o JOB_CONTENT_SELECTORS \o GENERIC_CONTENT_SELECTORS
        \o <<"innerText.length > 300">>

(* what a best-effort browser call can raise *)
BestEffortErrors == V2EngineErrors \cup {PlaywrightTimeoutError}

(* try: <best-effort call> except Exception: pass / continue / log *)
BestEffort_Propagates(e, next) ==
    /\ V2Raise(e)
    /\ v2_swallowed' = TRUE
BestEffort(e, next) ==
    /\ v2_pc' = next
    /\ v2_swallowed' = TRUE
    /\ UNCHANGED v2_exc

(* _wait_for_content_render: one sub-check.  The network-idle wait falls     *)
(* through either way; a selector or the text-length wait that succeeds      *)
(* returns True; a failure goes to the next sub-check, the last one returns  *)
(* False                                                                     *)
V2RenderCheck ==
    /\ api = "v2" /\ v2_pc = "render"
    /\ v2_check' = v2_check + 1
    /\ v2_stages' = IF v2_check = 0 THEN Append(v2_stages, "readiness") ELSE v2_stages
    /\ LET last == v2_check' = Len(RenderChecks) IN
       \/ /\ IF RenderChecks[v2_check'] = "networkidle"
             THEN v2_pc' = "render" /\ UNCHANGED v2_found
             ELSE v2_pc' = "rendered" /\ v2_found' = "True"
          /\ UNCHANGED <<v2_exc, v2_swallowed>>
       \/ \E e \in BestEffortErrors :
             /\ BestEffort(e, IF last THEN "rendered" ELSE "render")
             /\ v2_found' = IF last THEN "False" ELSE v2_found
    /\ UNCHANGED <<scen, v2nav, v1vars, api, engine, v2in, v2_context, v2_page, v2_strategy,
                   v2_last_error, v2_status_code, v2_extracted, v2_outcome,
                   v2_bodyText, v2_evalRaised, v2_hardError, v2_ctxCloseCalls,
                   v2_pageCloseCalls, v2_primary, v2_fallback, v2_selector,
                   v2_nodes, v2_job_content>>

(* await _wait_for_content_render(page): the value is dropped; then           *)
(* `if status_code >= 400`                                                    *)
V2WaitForContentRender ==
    /\ api = "v2" /\ v2_pc = "rendered"
    /\ v2_check' = 0
    /\ v2_found' = "none"
    /\ v2_pc' = IF IsHttpError(v2_status_code) THEN "check_404" ELSE "scroll"
    /\ UNCHANGED <<scen, v2nav, v1vars, api, engine, v2in, v2_context, v2_page, v2_strategy,
                   v2_last_error, v2_status_code, v2_extracted, v2_exc, v2_outcome,
                   v2hist, v2_primary, v2_fallback, v2_swallowed, v2_selector,
                   v2_nodes, v2_job_content>>

(* if status_code >= 400: is_real_404 = await _check_real_404(page) ... *)
V2CheckReal404 ==
    /\ api = "v2" /\ v2_pc = "check_404"
    /\ Stage("classify")
    /\ \E text \in BodyTexts, raised \in BOOLEAN :
        /\ v2_bodyText' = text
        /\ v2_evalRaised' = raised
        /\ IF CheckReal404(text, raised)
           THEN /\ V2Raise(HTTPException(ClassifierStatus(v2_status_code)))
                /\ v2_hardError' = TRUE
           ELSE /\ v2_pc' = "scroll"
                /\ UNCHANGED <<v2_exc, v2_hardError>>
    /\ UNCHANGED <<scen, v2nav, v2aux, v1vars, api, engine, v2in, v2_context, v2_page, v2_strategy,
                   v2_last_error, v2_status_code, v2_extracted, v2_outcome,
                   v2_ctxCloseCalls, v2_pageCloseCalls>>

(* _scroll_and_wait: the script's failure is passed; sleep(0.5) *)
V2ScrollAndWait ==
    /\ api = "v2" /\ v2_pc = "scroll"
    /\ Stage("scroll")
    /\ \/ /\ v2_pc' = "clean_dom"
          /\ UNCHANGED <<v2_exc, v2_swallowed>>
       \/ \E e \in BestEffortErrors : BestEffort(e, "clean_dom")
    /\ UNCHANGED <<scen, v2nav, v1vars, api, engine, v2in, v2_context, v2_page, v2_strategy,
                   v2_last_error, v2_status_code, v2_extracted, v2_outcome,
                   v2_bodyText, v2_evalRaised, v2_hardError, v2_ctxCloseCalls,
                   v2_pageCloseCalls, v2_primary, v2_fallback, v2_check, v2_found,
                   v2_selector, v2_nodes, v2_job_content>>

(* _clean_dom: the script's failure is logged *)
V2CleanDom ==
    /\ api = "v2" /\ v2_pc = "clean_dom"
    /\ Stage("clean_dom")
    /\ LET next == IF output_format = "text" THEN "job_extract" ELSE "content" IN
       \/ /\ v2_pc' = next
          /\ UNCHANGED <<v2_exc, v2_swallowed>>
       \/ \E e \in BestEffortErrors : BestEffort(e, next)
    /\ UNCHANGED <<scen, v2nav, v1vars, api, engine, v2in, v2_context, v2_page, v2_strategy,
                   v2_last_error, v2_status_code, v2_extracted, v2_outcome,
                   v2_bodyText, v2_evalRaised, v2_hardError, v2_ctxCloseCalls,
                   v2_pageCloseCalls, v2_primary, v2_fallback, v2_check, v2_found,
                   v2_selector, v2_nodes, v2_job_content>>

(* _extract_job_content: one turn of its loop.  query_selector gives the     *)
(* first node the selector matches; its trimmed inner text is returned when  *)
(* longer than 100; no node, a shorter text or an exception go to the next   *)
(* selector, and the end of the list returns None                            *)
V2QuerySelector ==
    /\ api = "v2" /\ v2_pc = "job_extract"
    /\ v2_selector' = v2_selector + 1
    /\ v2_stages' = IF v2_selector = 0 THEN Append(v2_stages, "job_extract") ELSE v2_stages
    /\ \E nodes \in (IF v2_selector = 0 THEN Pages ELSE {v2_nodes}) :
        /\ v2_nodes' = nodes
        /\ LET text == nodes[v2_selector']
               continue ==
                  IF v2_selector' < Len(JOB_CONTENT_SELECTORS)
                  THEN v2_pc' = "job_extract" /\ UNCHANGED v2_job_content
                  ELSE v2_pc' = "job_return" /\ v2_job_content' = NoNode
           IN \/ IF text.len > JobSelectorMinLen
                 THEN v2_pc' = "job_return" /\ v2_job_content' = text
                 ELSE continue
              \/ continue                              \* except Exception: continue
    /\ UNCHANGED <<scen, v2nav, v1vars, api, engine, v2in, v2_context, v2_page, v2_strategy,
                   v2_last_error, v2_status_code, v2_extracted, v2_exc, v2_outcome,
                   v2_bodyText, v2_evalRaised, v2_hardError, v2_ctxCloseCalls,
                   v2_pageCloseCalls, v2_primary, v2_fallback, v2_swallowed,
                   v2_check, v2_found>>

(* text mode: job_content = await _extract_job_content(page); the cleaned     *)
(* text is returned when job_content is longer than 200 and the cleaned text  *)
(* longer than 150                                                            *)
V2ExtractJobContent ==
    /\ api = "v2" /\ v2_pc = "job_return"
    /\ v2_selector' = 0
    /\ IF v2_job_content.len > JobDirectMinLen /\ v2_job_content.cleaned > JobCleanedMinLen
       THEN V2Return(v2_job_content.cleaned, "StructuralSelector")
       ELSE v2_pc' = "content" /\ UNCHANGED v2_outcome
    /\ UNCHANGED <<scen, v2nav, v1vars, api, engine, v2in, v2_context, v2_page, v2_strategy,
                   v2_last_error, v2_status_code, v2_extracted, v2_exc,
                   v2hist, v2_primary, v2_fallback, v2_swallowed, v2_check,
                   v2_found, v2_nodes, v2_job_content>>

(* if not html_content or len(html_content.strip()) < 100 *)
HtmlTooShort_OnlyEmpty(html_content) == html_content = 0
HtmlTooShort(html_content) == html_content < HtmlMinLen

(* html_content = await page.content(); 204 when empty or shorter than 100.  *)
(* job_content is not read again from here on                                *)
V2PageContent ==
    /\ api = "v2" /\ v2_pc = "content"
    /\ Stage("serialize")
    /\ v2_nodes' = NoNodes
    /\ v2_job_content' = NoNode
    /\ \/ \E html_content \in SerializedLens :
            /\ v2_html_content' = html_content
            /\ IF HtmlTooShort(html_content)
               THEN V2Raise(HTTPException(HTTP_204_NO_CONTENT))
               ELSE v2_pc' = "extract" /\ UNCHANGED v2_exc
       \/ /\ \E e \in V2EngineErrors : V2Raise(e)
          /\ UNCHANGED v2_html_content
    /\ UNCHANGED <<scen, v2_sleeps, v2_raised, v2_fb, v1vars, api, engine, v2in, v2_context,
                   v2_page, v2_strategy,
                   v2_last_error, v2_status_code, v2_extracted, v2_outcome,
                   v2_bodyText, v2_evalRaised, v2_hardError, v2_ctxCloseCalls,
                   v2_pageCloseCalls, v2_primary, v2_fallback, v2_swallowed,
                   v2_check, v2_found, v2_selector>>

(* if not extracted or len(extracted.strip()) < 50 *)
NeedsFallback_OnlyWhenEmpty(extracted) == extracted = 0
NeedsFallback(extracted) == extracted < ExtractMinLen

(* extracted = await _extract_content_async(html_content, output_format);     *)
(* enough content is returned, anything less goes to the fallback             *)
V2ExtractContentAsync ==
    /\ api = "v2" /\ v2_pc = "extract"
    /\ Stage("extract")
    /\ \/ \E extracted \in ExtractLens :
            /\ v2_extracted' = extracted
            /\ v2_primary' = extracted
            /\ IF NeedsFallback(extracted)
               THEN v2_pc' = "fallback" /\ UNCHANGED v2_outcome
               ELSE V2Return(extracted, "PrimaryEngine")
            /\ UNCHANGED v2_exc
       \/ /\ \E e \in V2EngineErrors : V2Raise(e)
          /\ UNCHANGED <<v2_extracted, v2_outcome, v2_primary>>
    /\ UNCHANGED v2_fallback
    /\ UNCHANGED <<scen, v2nav, v1vars, api, engine, v2in, v2_context, v2_page, v2_strategy,
                   v2_last_error, v2_status_code,
                   v2_bodyText, v2_evalRaised, v2_hardError, v2_ctxCloseCalls,
                   v2_pageCloseCalls, v2_swallowed, v2_check, v2_found,
                   v2_selector, v2_nodes, v2_job_content>>

(* extracted = await _get_fallback_content(page, output_format); 204 when it  *)
(* is empty, else return extracted.strip()                                    *)
V2GetFallbackContent ==
    /\ api = "v2" /\ v2_pc = "fallback"
    /\ Stage("fallback")
    /\ \/ \E extracted \in FallbackLens :
            \* job_content of _extract_job_content, or the html-mode script
            /\ v2_extracted' = extracted
            /\ v2_fallback' = extracted
            /\ IF extracted = 0
               THEN V2Raise(HTTPException(HTTP_204_NO_CONTENT)) /\ UNCHANGED v2_outcome
               ELSE V2Return(extracted, "GenericFallback") /\ UNCHANGED v2_exc
            /\ UNCHANGED v2_fb
       \/ \E page \in FallbackPages :
            \* the text-mode script, then _clean_extracted_text
            /\ output_format = "text"
            /\ v2_fb' = [page |-> page, el |-> FallbackElement(page)]
            /\ \E extracted \in { n \in FallbackLens : n <= InnerTextLen(page, FallbackElement(page)) } :
                  /\ v2_extracted' = extracted
                  /\ v2_fallback' = extracted
                  /\ IF extracted = 0
                     THEN V2Raise(HTTPException(HTTP_204_NO_CONTENT)) /\ UNCHANGED v2_outcome
                     ELSE V2Return(extracted, "GenericFallback") /\ UNCHANGED v2_exc
       \/ /\ \E e \in V2EngineErrors : V2Raise(e)      \* page.evaluate is not guarded
          /\ UNCHANGED <<v2_extracted, v2_outcome, v2_fallback, v2_fb>>
    /\ UNCHANGED <<scen, v2_sleeps, v2_raised, v2_html_content, v1vars, api, engine, v2in, v2_context, v2_page,
                   v2_strategy, v2_last_error, v2_status_code,
                   v2_bodyText, v2_evalRaised, v2_hardError, v2_ctxCloseCalls,
                   v2_pageCloseCalls, v2_primary, v2_swallowed, v2_check, v2_found,
                   v2_selector, v2_nodes, v2_job_content>>

(* except HTTPException / asyncio.TimeoutError / Exception *)
V2Except ==
    /\ api = "v2" /\ v2_pc = "except"
    /\ v2_outcome' = V2Raised(HandleException(v2_exc))
    /\ v2_exc' = NoExc
    /\ v2_pc' = "finally"
    /\ UNCHANGED <<scen, v2nav, v2aux, v1vars, api, engine, v2in, v2_context, v2_page, v2_strategy,
                   v2_last_error, v2_status_code, v2_extracted, v2hist>>

(* finally: if page: ctx = page.context; page.close(); ctx.close(), all in    *)
(* one try whose errors are passed: ctx.close() runs only after page.close()  *)
(* returned                                                                   *)
V2Finally ==
    /\ api = "v2" /\ v2_pc = "finally"
    /\ IF v2_page # 0
       THEN \E pageOk \in BOOLEAN :
              /\ v2_pageCloseCalls' = v2_pageCloseCalls + 1
              /\ IF pageOk
                 THEN /\ CloseContext(v2_page)
                      /\ v2_ctxCloseCalls' = v2_ctxCloseCalls + 1
                 ELSE /\ ClosePage(v2_page, FALSE)
                      /\ UNCHANGED v2_ctxCloseCalls
       ELSE UNCHANGED <<engine, v2_pageCloseCalls, v2_ctxCloseCalls>>
    /\ v2_pc' = "done"
    /\ UNCHANGED <<scen, v2nav, v2aux, v1vars, api, v2in, v2_context, v2_page, v2_strategy,
                   v2_last_error, v2_status_code, v2_extracted, v2_exc, v2_outcome,
                   v2_bodyText, v2_evalRaised, v2_hardError, v2_stages>>

V2Next ==
    \/ V2NewContext \/ V2ApplyStealth \/ V2NewPage \/ V2PageRoute \/ V2Goto
    \/ V2WaitLoadState \/ V2RenderCheck \/ V2WaitForContentRender \/ V2CheckReal404
    \/ V2ScrollAndWait \/ V2CleanDom \/ V2QuerySelector \/ V2ExtractJobContent
    \/ V2PageContent
    \/ V2ExtractContentAsync \/ V2GetFallbackContent \/ V2Except \/ V2Finally

-----------------------------------------------------------------------------
(* v2: _clean_extracted_text, on texts given line by line *)

ShortLineLen == 50        \* if len(line) < 50
ShortLineRepeats == 2     \* if seen_short_lines[line] > 2
AlphaRatioLineLen == 20   \* alpha_ratio < 0.5 and len(line) > 20
ParagraphMinLen == 20     \* if len(para_normalized) > 20

MaxLines == 4             \* texts have 1..MaxLines lines
MaxCalls == 2             \* calls made one after the other against the same stub

(* A line of text, by what _clean_extracted_text reads from it: `w` is the   *)
(* line whitespace-collapsed and case-folded, `form` tells the variants of   *)
(* one `w` apart (as written, upper-cased, or padded with blanks), `len` is  *)
(* the length once stripped, `skip` whether one of skip_patterns matches,    *)
(* `alpha` whether at least half of the characters are letters or blanks     *)
TextLine(w, form, len, skip, alpha) ==
    [w |-> w, form |-> form, len |-> len, skip |-> skip, alpha |-> alpha]
EmptyLine == TextLine("", "plain", 0, FALSE, TRUE)
NL == TextLine("\n", "plain", 1, FALSE, TRUE)
TitleLine == TextLine("senior engineer, remote (emea)", "plain", 30, FALSE, TRUE)
TextLines ==
    { EmptyLine,
      TitleLine,
      [TitleLine EXCEPT !.form = "upper"],
      [TitleLine EXCEPT !.form = "padded"],
      TextLine("you will design, build and run the services behind our search.",
               "plain", 62, FALSE, TRUE),
      TextLine("{\"theme\": {\"primary-color\": 1}}", "plain", 31, TRUE, TRUE),
      TextLine("2024-01-31 09:00 - 2024-02-29 17:30", "plain", 35, FALSE, FALSE) }

(* texts: text.split("\n") always has at least one line *)
RECURSIVE SeqsUpTo(_, _)
SeqsUpTo(S, n) ==
    IF n = 0 THEN {<<>>}
    ELSE LET shorter == SeqsUpTo(S, n - 1) IN
         shorter \cup { Append(t, x) : t \in { u \in shorter : Len(u) = n - 1 }, x \in S }
Texts == SeqsUpTo(TextLines, MaxLines) \ {<<>>}

(* line.strip() *)
Strip_Nothing(line) == line
Strip(line) == IF line.form = "padded" THEN [line EXCEPT !.form = "plain"] ELSE line

(* seen_short_lines.get(line, 0), and the dict after counting the line *)
Get(seen, line) == IF line \in DOMAIN seen THEN seen[line] ELSE 0
Counted_Once(seen, line) ==
    [l \in DOMAIN seen \cup {line} |-> IF l = line THEN 1 ELSE seen[l]]
Counted(seen, line) ==
    [l \in DOMAIN seen \cup {line} |-> IF l = line THEN Get(seen, line) + 1 ELSE seen[l]]

(* seen_short_lines = {} *)
EmptyDict == [l \in {} |-> 0]
seen_short_lines_Leftover == rp_left
seen_short_lines == EmptyDict

(* if seen_short_lines[line] > 2: continue *)
SeenTooOften_ExactlyTwice(seen, line) == seen[line] = ShortLineRepeats
SeenTooOften(seen, line) == seen[line] > ShortLineRepeats

(* the `for line in lines` loop: cleaned_lines and seen_short_lines at its end *)
RECURSIVE LineLoop(_, _, _)
LineLoop(lines, seen, cleaned_lines) ==
    IF lines = <<>>
    THEN [cleaned_lines |-> cleaned_lines, seen_short_lines |-> seen]
    ELSE LET line == Strip(Head(lines))
             rest == Tail(lines)
             seen1 == IF line.len < ShortLineLen THEN Counted(seen, line) ELSE seen
         IN IF line.len = 0 THEN LineLoop(rest, seen, cleaned_lines)
            ELSE IF line.skip THEN LineLoop(rest, seen, cleaned_lines)
            ELSE IF line.len < ShortLineLen /\ SeenTooOften(seen1, line)
                 THEN LineLoop(rest, seen1, cleaned_lines)
            ELSE IF ~line.alpha /\ line.len > AlphaRatioLineLen
                 THEN LineLoop(rest, seen1, cleaned_lines)
            ELSE LineLoop(rest, seen1, Append(cleaned_lines, line))

(* From here on a string is the sequence of its non-empty lines and of its   *)
(* newline characters (NL), in order.                                        *)

(* text.split("\n") of such a string: one line per newline, plus one *)
RECURSIVE SplitLines(_)
SplitLines(t) ==
    IF t = <<>> THEN <<EmptyLine>>
    ELSE IF t[1] = NL THEN <<EmptyLine>> \o SplitLines(Tail(t))
    ELSE IF Len(t) = 1 THEN t
    ELSE <<t[1]>> \o SplitLines(SubSeq(t, 3, Len(t)))

(* "\n".join(cleaned_lines) *)
RECURSIVE JoinLines(_)
JoinLines(ls) ==
    IF ls = <<>> THEN <<>>
    ELSE IF Len(ls) = 1 THEN (IF ls[1].len = 0 THEN <<>> ELSE <<ls[1]>>)
    ELSE (IF ls[1].len = 0 THEN <<>> ELSE <<ls[1]>>) \o <<NL>> \o JoinLines(Tail(ls))

(* re.sub(r"\n{3,}", "\n\n", result) *)
RECURSIVE CollapseNewlines(_)
CollapseNewlines(t) ==
    IF Len(t) < 3 THEN t
    ELSE IF t[1] = NL /\ t[2] = NL /\ t[3] = NL THEN CollapseNewlines(Tail(t))
    ELSE <<t[1]>> \o CollapseNewlines(Tail(t))

(* result.split("\n\n") *)
RECURSIVE SplitParagraphs(_, _)
SplitParagraphs(t, para) ==
    IF t = <<>> THEN <<para>>
    ELSE IF Len(t) >= 2 /\ t[1] = NL /\ t[2] = NL
         THEN <<para>> \o SplitParagraphs(SubSeq(t, 3, Len(t)), <<>>)
    ELSE SplitParagraphs(Tail(t), Append(para, t[1]))

(* " ".join(para.split()).lower(), and its length *)
RECURSIVE Normalized(_)
Normalized(para) ==
    IF para = <<>> THEN <<>>
    ELSE IF para[1] = NL THEN Normalized(Tail(para))
    ELSE <<para[1].w>> \o Normalized(Tail(para))
RECURSIVE WordsLen(_)
WordsLen(para) ==
    IF para = <<>> THEN 0
    ELSE IF para[1] = NL THEN WordsLen(Tail(para))
    ELSE para[1].len + WordsLen(Tail(para))
NormalizedLen(para) ==
    IF Normalized(para) = <<>> THEN 0
    ELSE WordsLen(para) + Len(Normalized(para)) - 1

(* the `for para in paragraphs` loop: unique_paragraphs *)
RECURSIVE ParagraphLoop(_, _, _)
ParagraphLoop(paragraphs, seen_paragraphs, unique_paragraphs) ==
    IF paragraphs = <<>> THEN unique_paragraphs
    ELSE LET para == Head(paragraphs)
             rest == Tail(paragraphs)
         IN IF NormalizedLen(para) > ParagraphMinLen
            THEN IF Normalized(para) \notin seen_paragraphs
                 THEN ParagraphLoop(rest, seen_paragraphs \cup {Normalized(para)},
                                    Append(unique_paragraphs, para))
                 ELSE ParagraphLoop(rest, seen_paragraphs, unique_paragraphs)
            ELSE ParagraphLoop(rest, seen_paragraphs, Append(unique_paragraphs, para))

(* "\n\n".join(unique_paragraphs) *)
RECURSIVE JoinParagraphs(_)
JoinParagraphs(ps) ==
    IF ps = <<>> THEN <<>>
    ELSE IF Len(ps) = 1 THEN ps[1]
    ELSE ps[1] \o <<NL, NL>> \o JoinParagraphs(Tail(ps))

(* str.strip() of such a string: newlines at either end go *)
RECURSIVE StripText(_)
StripText(t) ==
    IF t = <<>> THEN <<>>
    ELSE IF t[1] = NL THEN StripText(Tail(t))
    ELSE IF t[Len(t)] = NL THEN StripText(SubSeq(t, 1, Len(t) - 1))
    ELSE t

(* _clean_extracted_text(text), started with `seen` as seen_short_lines: the *)
(* text it returns and the seen_short_lines it ends with                    *)
CleanFrom(text, seen) ==
    LET loop == LineLoop(text, seen, <<>>)
        result == CollapseNewlines(JoinLines(loop.cleaned_lines))
        paragraphs == SplitParagraphs(result, <<>>)
        unique_paragraphs == ParagraphLoop(paragraphs, {}, <<>>)
    IN [text |-> StripText(JoinParagraphs(unique_paragraphs)),
        seen_short_lines |-> loop.seen_short_lines]

(* if not text: return "" *)
IsEmptyText(text) == text = <<EmptyLine>>
_clean_extracted_text(text) ==
    IF IsEmptyText(text)
    THEN [text |-> <<>>, seen_short_lines |-> rp_left]
    ELSE CleanFrom(text, seen_short_lines)

(* _extract_with_trafilatura, given the result of trafilatura.extract:       *)
(* if result and output_format == "text": result = _clean_extracted_text(result) *)
_extract_with_trafilatura(result, format) ==
    IF ~IsEmptyText(result) /\ format = "text"
    THEN _clean_extracted_text(result)
    ELSE [text |-> JoinLines(result), seen_short_lines |-> rp_left]

USER_AGENTS ==
    << "Chrome/125 Windows", "Chrome/125 Macintosh", "Firefox/126 Windows",
       "Safari/17.5 Macintosh", "Chrome/125 Linux" >>

(* One more call of get_page_content for the same URL and output_format: the *)
(* session draws its user agent, the extraction engine answers as the stub   *)
(* says, and the call returns what _extract_with_trafilatura makes of that   *)
V2CallOnStub ==
    /\ api = "v2_repeat"
    /\ Len(rp_results) < MaxCalls
    /\ \E ua \in 1..Len(USER_AGENTS) : rp_user_agent' = ua
    /\ LET extracted == _extract_with_trafilatura(rp_stub, output_format) IN
          /\ rp_results' = Append(rp_results, extracted.text)
          /\ rp_left' = extracted.seen_short_lines
    /\ UNCHANGED <<api, engine, v1vars, v2vars, svcvars, rp_stub, poolvars, sessvars>>

RepeatInit ==
    /\ rp_results = <<>>
    /\ rp_user_agent = 0
    /\ rp_left = EmptyDict

-----------------------------------------------------------------------------
(* v2: _extract_content_async of concurrently running requests.  The event   *)
(* loop thread ("MainThread") runs the requests' coroutines; _executor is a  *)
(* ThreadPoolExecutor: submitted calls wait in its work queue, in order,     *)
(* and each of its at most max_workers threads runs one call at a time.      *)

max_workers == 4          \* _executor = ThreadPoolExecutor(max_workers=4)
MaxRequests == 5          \* requests running concurrently: 1..MaxRequests

Requests == 1..MaxRequests
Extracting == { r \in Requests : ex_pc[r] = "extracting" }

(* a thread of _executor is free to take the next call *)
FreeLane_Unbounded == TRUE
FreeLane == Cardinality(Extracting) < max_workers

(* loop.run_in_executor(_executor, partial(_extract_with_trafilatura, ...)): *)
(* the call is queued and the coroutine awaits its future                    *)
RunInExecutor(r) ==
    /\ api = "v2_pool" /\ ex_pc[r] = "browser"
    /\ ex_pc' = [ex_pc EXCEPT ![r] = "queued"]
    /\ _work_queue' = Append(_work_queue, r)
    /\ UNCHANGED <<api, engine, v1vars, v2vars, svcvars, rpvars, sessvars, ex_thread>>

(* a thread of _executor takes the first queued call and runs                *)
(* _extract_with_trafilatura                                                 *)
WorkerStart ==
    /\ api = "v2_pool" /\ _work_queue # <<>>
    /\ FreeLane
    /\ LET r == Head(_work_queue) IN
          /\ ex_pc' = [ex_pc EXCEPT ![r] = "extracting"]
          /\ ex_thread' = [ex_thread EXCEPT ![r] = "ThreadPoolExecutor"]
    /\ _work_queue' = Tail(_work_queue)
    /\ UNCHANGED <<api, engine, v1vars, v2vars, svcvars, rpvars, sessvars>>

(* _extract_with_trafilatura returns: the future is resolved and the thread  *)
(* is free again                                                             *)
WorkerFinish(r) ==
    /\ api = "v2_pool" /\ ex_pc[r] = "extracting"
    /\ ex_pc' = [ex_pc EXCEPT ![r] = "done"]
    /\ UNCHANGED <<api, engine, v1vars, v2vars, svcvars, rpvars, sessvars, _work_queue, ex_thread>>

PoolNext ==
    \/ \E r \in Requests : RunInExecutor(r)
    \/ WorkerStart
    \/ \E r \in Requests : WorkerFinish(r)

PoolInit ==
    /\ ex_pc = [r \in Requests |-> "browser"]
    /\ _work_queue = <<>>
    /\ ex_thread = [r \in Requests |-> "none"]

-----------------------------------------------------------------------------
(* Sessions of concurrently running requests (v1 run or v2                   *)
(* get_page_content).  browser.new_context() returns a context that did not  *)
(* exist before: the k-th context request r asks for is <<r, k>>; its page   *)
(* has the same handle.                                                      *)

MaxSessions == 2          \* requests running concurrently: 1..MaxSessions

Sessions == 1..MaxSessions
NoHandle == <<0, 0>>
Session(version, retries, pc, attempt, context, page, failed) ==
    [api |-> version, max_retries |-> retries, pc |-> pc, attempt |-> attempt,
     context |-> context, page |-> page, failed |-> failed]

(* the request's locals `context` and `page` *)
LocalContext(r) == ss_req[r].context
LocalPage_Shared(r) == IF pageOpen = {} THEN NoHandle ELSE CHOOSE h \in pageOpen : TRUE
LocalPage(r) == ss_req[r].page

(* request r issues a call on handle h *)
Used(users, r, h) ==
    [g \in DOMAIN users \cup {h} |->
        IF g = h THEN (IF g \in DOMAIN users THEN users[g] ELSE {}) \cup {r}
        ELSE users[g]]

(* context = await browser.new_context(...) *)
SessNewContext(r) ==
    /\ api = "sessions" /\ ss_req[r].pc = "new_context"
    /\ LET h == <<r, ss_req[r].attempt + 1>> IN
          /\ h \notin DOMAIN ss_users
          /\ ctxOpen' = ctxOpen \cup {h}
          /\ ss_users' = [g \in DOMAIN ss_users \cup {h} |->
                             IF g = h THEN {} ELSE ss_users[g]]
          /\ ss_req' = [ss_req EXCEPT ![r].context = h, ![r].pc = "new_page"]
    /\ UNCHANGED <<api, pageOpen, v1vars, v2vars, svcvars, rpvars, poolvars>>

(* page = await context.new_page() *)
SessNewPage(r) ==
    /\ api = "sessions" /\ ss_req[r].pc = "new_page"
    /\ LocalContext(r) \in ctxOpen
    /\ pageOpen' = pageOpen \cup {LocalContext(r)}
    /\ ss_users' = Used(ss_users, r, LocalContext(r))
    /\ ss_req' = [ss_req EXCEPT ![r].page = LocalContext(r), ![r].pc = "page"]
    /\ UNCHANGED <<api, ctxOpen, v1vars, v2vars, svcvars, rpvars, poolvars>>

(* the calls on the page: route, goto, wait_for_*, evaluate, query_selector, *)
(* content; they end with content or with a failure                          *)
SessPageCalls(r) ==
    /\ api = "sessions" /\ ss_req[r].pc = "page"
    /\ LocalPage(r) \in pageOpen
    /\ ss_users' = Used(ss_users, r, LocalPage(r))
    /\ \E failed \in BOOLEAN :
          ss_req' = [ss_req EXCEPT ![r].failed = failed, ![r].pc = "close"]
    /\ UNCHANGED <<api, engine, v1vars, v2vars, svcvars, rpvars, poolvars>>

(* finally: page.close() and context.close(); a v1 request that failed and   *)
(* has attempts left starts over                                             *)
SessClose(r) ==
    /\ api = "sessions" /\ ss_req[r].pc = "close"
    /\ ss_users' = Used(ss_users, r, LocalContext(r))
    /\ CloseContext(LocalContext(r))
    /\ ss_req' =
          IF /\ ss_req[r].api = "v1" /\ ss_req[r].failed
             /\ ss_req[r].attempt < ss_req[r].max_retries
          THEN [ss_req EXCEPT ![r].pc = "new_context",
                              ![r].attempt = ss_req[r].attempt + 1,
                              ![r].context = NoHandle, ![r].page = NoHandle,
                              ![r].failed = FALSE]
          ELSE [ss_req EXCEPT ![r].pc = "done"]
    /\ UNCHANGED <<api, v1vars, v2vars, svcvars, rpvars, poolvars>>

SessNext ==
    \E r \in Sessions :
        SessNewContext(r) \/ SessNewPage(r) \/ SessPageCalls(r) \/ SessClose(r)

SessInit ==
    /\ ss_req \in [Sessions ->
          { Session(version, retries, "new_context", 0, NoHandle, NoHandle, FALSE) :
              version \in {"v1", "v2"}, retries \in 0..MaxRetries }]
    /\ \A r \in Sessions : ss_req[r].api = "v2" => ss_req[r].max_retries = 0
    /\ ss_users = [h \in {} |-> {}]

-----------------------------------------------------------------------------
(* v2: _handle_route, the interception rule page.route installs.  A URL is   *)
(* given by the pieces of its text, in order, after the scheme: those of the *)
(* host and those of path and query.  A deny-listed name is one piece, so    *)
(* `pattern in url` holds when a piece of the lower-cased URL is the pattern.*)

MaxIntercepts == 3        \* requests intercepted on one page

BLOCKED_URL_PATTERNS ==
    { "google-analytics.com", "googletagmanager.com", "facebook.net",
      "doubleclick.net", "googlesyndication.com", "adservice.google",
      "hotjar.com", "mixpanel.com", "segment.io", "amplitude.com",
      "sentry.io", "newrelic.com", "nr-data.net" }

Url(host, rest) == [host |-> host, rest |-> rest]
Urls ==
    { Url(<<"www.", "google-analytics.com">>, <<"/collect?v=2">>),
      Url(<<"o1.ingest.", "Sentry.IO">>, <<"/api/1/envelope/">>),
      Url(<<"careers.example.com">>, <<"/jobs/42">>),
      Url(<<"careers.example.com">>, <<"/static/", "hotjar.com", "-loader.js">>),
      Url(<<"careers.example.com">>, <<"/out?to=https://", "sentry.io", "/welcome">>),
      Url(<<"cdn.example.net">>, <<"/app.js">>) }

(* str.lower() of a piece *)
Lower(piece) == IF piece = "Sentry.IO" THEN "sentry.io" ELSE piece

(* url = request.url.lower(): its pieces *)
LowerUrl(u) ==
    [i \in 1..(Len(u.host) + Len(u.rest)) |->
        Lower(IF i <= Len(u.host) THEN u.host[i] ELSE u.rest[i - Len(u.host)])]

(* the calls _handle_route makes on the route, in order *)
_handle_route(u) ==
    LET url == LowerUrl(u) IN
    IF \E pattern \in BLOCKED_URL_PATTERNS : \E i \in 1..Len(url) : url[i] = pattern
    THEN <<"abort">>
    ELSE <<"continue_">>

(* the page intercepts one more request and _handle_route is called on it *)
HandleRoute ==
    /\ api = "v2_route"
    /\ Len(rt_log) < MaxIntercepts
    /\ \E u \in Urls : rt_log' = Append(rt_log, [url |-> u, calls |-> _handle_route(u)])
    /\ UNCHANGED <<api, engine, v1vars, v2vars, rpvars, poolvars, sessvars, lifevars, netvars>>

-----------------------------------------------------------------------------
(* core/lifecycle.py: lifespan, and get_network_logs served while the        *)
(* application is up                                                         *)

MaxEvents == 3            \* page events emitted while get_network_logs listens

NoState == {}             \* playwright_state = {}

(* playwright = await async_playwright().start() *)
LsStartPlaywright ==
    /\ api = "service" /\ ls_pc = "start"
    /\ \/ /\ ls_playwright' = "started"
          /\ ls_pc' = "launch"
          /\ UNCHANGED ls_raised
       \/ /\ ls_raised' = TRUE
          /\ ls_pc' = "finally"
          /\ UNCHANGED ls_playwright
    /\ UNCHANGED <<api, engine, v1vars, v2vars, rpvars, poolvars, sessvars, rt_log, netvars,
                   ls_browser, playwright_state, ls_calls>>

(* browser = await playwright.chromium.launch(args=browser_args); then the   *)
(* two instances are stored in playwright_state and app.state; yield         *)
LsLaunch ==
    /\ api = "service" /\ ls_pc = "launch"
    /\ \/ /\ ls_browser' = "open"
          /\ playwright_state' = {"playwright", "browser"}
          /\ ls_pc' = "serving"
          /\ UNCHANGED ls_raised
       \/ /\ ls_raised' = TRUE
          /\ ls_pc' = "finally"
          /\ UNCHANGED <<ls_browser, playwright_state>>
    /\ UNCHANGED <<api, engine, v1vars, v2vars, rpvars, poolvars, sessvars, rt_log, netvars,
                   ls_playwright, ls_calls>>

(* the application shuts down: the generator is resumed after its yield, no  *)
(* request being served any more                                             *)
LsShutdown ==
    /\ api = "service" /\ ls_pc = "serving"
    /\ nl_pc \in {"idle", "done"}
    /\ ls_pc' = "finally"
    /\ UNCHANGED <<api, engine, v1vars, v2vars, rpvars, poolvars, sessvars, rt_log, netvars,
                   ls_playwright, ls_browser, playwright_state, ls_raised, ls_calls>>

(* finally: browser = playwright_state.get("browser");                       *)
(* if browser: await browser.close()                                         *)
LsCloseBrowser ==
    /\ api = "service" /\ ls_pc = "finally"
    /\ IF "browser" \in playwright_state
       THEN /\ ls_calls' = Append(ls_calls, "browser.close")
            /\ \/ /\ ls_browser' = "closed"
                  /\ ls_pc' = "stop"
                  /\ UNCHANGED ls_raised
               \/ /\ ls_raised' = TRUE          \* close() raises: the finally is left
                  /\ ls_pc' = "exited"
                  /\ ls_browser' \in {"open", "closed"}
       ELSE /\ ls_pc' = "stop"
            /\ UNCHANGED <<ls_browser, ls_raised, ls_calls>>
    /\ UNCHANGED <<api, engine, v1vars, v2vars, rpvars, poolvars, sessvars, rt_log, netvars,
                   ls_playwright, playwright_state>>

(* playwright = playwright_state.get("playwright");                          *)
(* if playwright: await playwright.stop()                                    *)
LsStopPlaywright ==
    /\ api = "service" /\ ls_pc = "stop"
    /\ ls_pc' = "exited"
    /\ IF "playwright" \in playwright_state
       THEN /\ ls_calls' = Append(ls_calls, "playwright.stop")
            /\ \/ ls_playwright' = "stopped" /\ UNCHANGED ls_raised
               \/ ls_raised' = TRUE /\ UNCHANGED ls_playwright
       ELSE UNCHANGED <<ls_playwright, ls_raised, ls_calls>>
    /\ UNCHANGED <<api, engine, v1vars, v2vars, rpvars, poolvars, sessvars, rt_log, netvars,
                   ls_browser, playwright_state>>

(* a page event as emitted: its type and its position among the events *)
Event(type, n) == [type |-> type, n |-> n]
EventTypes == {"console", "request", "response"}
NoReport == [total_logs |-> 0 - 1, logs |-> <<>>]

(* get_network_logs: logs = []; context, init script, page, page.on(...) *)
NlOpen ==
    /\ api = "service" /\ ls_pc = "serving" /\ nl_pc = "idle"
    /\ include_body' \in BOOLEAN
    /\ logs' = <<>>
    /\ nl_pc' = "listening"
    /\ UNCHANGED <<api, engine, v1vars, v2vars, rpvars, poolvars, sessvars, rt_log, lifevars,
                   nl_emitted, nl_pending, nl_report>>

(* the page emits an event during goto, the network-idle wait or the sleep.  *)
(* log_console and log_request append at once; so does log_response unless   *)
(* include_body, when it first awaits res.text()                             *)
NlEmit ==
    /\ api = "service" /\ nl_pc = "listening"
    /\ Len(nl_emitted) < MaxEvents
    /\ \E type \in EventTypes :
          LET e == Event(type, Len(nl_emitted) + 1) IN
          /\ nl_emitted' = Append(nl_emitted, e)
          /\ IF type = "response" /\ include_body
             THEN nl_pending' = nl_pending \cup {e} /\ UNCHANGED logs
             ELSE logs' = Append(logs, e) /\ UNCHANGED nl_pending
    /\ UNCHANGED <<api, engine, v1vars, v2vars, rpvars, poolvars, sessvars, rt_log, lifevars,
                   nl_pc, include_body, nl_report>>

(* log_response: res.text() returned or raised; logs.append(...) *)
NlLogResponse ==
    /\ api = "service"
    /\ \E e \in nl_pending :
          /\ logs' = Append(logs, e)
          /\ nl_pending' = nl_pending \ {e}
    /\ UNCHANGED <<api, engine, v1vars, v2vars, rpvars, poolvars, sessvars, rt_log, lifevars,
                   nl_pc, include_body, nl_emitted, nl_report>>

(* return DebugResponse(..., total_logs=len(logs), logs=logs); or goto raised *)
NlReport ==
    /\ api = "service" /\ nl_pc = "listening"
    /\ \/ nl_report' = [total_logs |-> Len(logs), logs |-> logs]
       \/ UNCHANGED nl_report
    /\ nl_pc' = "finally"
    /\ UNCHANGED <<api, engine, v1vars, v2vars, rpvars, poolvars, sessvars, rt_log, lifevars,
                   include_body, nl_emitted, logs, nl_pending>>

(* finally: await page.close(); await context.close() *)
NlClose ==
    /\ api = "service" /\ nl_pc = "finally"
    /\ nl_pc' = "done"
    /\ UNCHANGED <<api, engine, v1vars, v2vars, rpvars, poolvars, sessvars, rt_log, lifevars,
                   include_body, nl_emitted, logs, nl_pending, nl_report>>

ServiceNext ==
    \/ LsStartPlaywright \/ LsLaunch \/ LsShutdown \/ LsCloseBrowser \/ LsStopPlaywright
    \/ NlOpen \/ NlEmit \/ NlLogResponse \/ NlReport \/ NlClose

RouteInit == rt_log = <<>>
LifespanInit ==
    /\ ls_pc = "start"
    /\ ls_playwright = "none"
    /\ ls_browser = "none"
    /\ playwright_state = NoState
    /\ ls_raised = FALSE
    /\ ls_calls = <<>>
NetworkLogsInit ==
    /\ nl_pc = "idle"
    /\ include_body = FALSE
    /\ nl_emitted = <<>>
    /\ logs = <<>>
    /\ nl_pending = {}
    /\ nl_report = NoReport
NoService == RouteInit /\ LifespanInit /\ NetworkLogsInit

-----------------------------------------------------------------------------
vars == <<api, engine, v1vars, v2vars, scen>>

EngineInit ==
    /\ ctxOpen = {}
    /\ pageOpen = {}

V1Init ==
    /\ max_retries \in 0..MaxRetries
    /\ v1_pc = "loop"
    /\ v1_attempt = 0
    /\ v1_context = 0
    /\ v1_page = 0
    /\ v1_strategy = 1
    /\ v1_sel = 1
    /\ v1_html = NoHtml
    /\ v1_exc = NoExc
    /\ v1_last_error = NoExc
    /\ v1_last_exception = NoExc
    /\ v1_result = V1NoResult
    /\ v1_plan = NoPlan
    /\ v1_gotos = <<>>
    /\ v1_rescue = NoRescue
    /\ v1_started = 0
    /\ v1_sleeps = <<>>
    /\ v1_firstHard = NoAttempt
    /\ v1_closeRaised = FALSE

V2Init ==
    /\ output_format \in {"text", "html"}
    /\ stealth \in BOOLEAN
    /\ v2_pc = "new_context"
    /\ v2_context = 0
    /\ v2_page = 0
    /\ v2_strategy = 1
    /\ v2_last_error = NoExc
    /\ v2_status_code = 0
    /\ v2_bodyText = NoText
    /\ v2_evalRaised = FALSE
    /\ v2_hardError = FALSE
    /\ v2_extracted = 0
    /\ v2_exc = NoExc
    /\ v2_outcome = V2NoOutcome
    /\ v2_stages = <<>>
    /\ v2_ctxCloseCalls = 0
    /\ v2_pageCloseCalls = 0
    /\ v2_primary = NoPrimary
    /\ v2_fallback = NoFallback
    /\ v2_swallowed = FALSE
    /\ v2_check = 0
    /\ v2_found = "none"
    /\ v2_selector = 0
    /\ v2_nodes = NoNodes
    /\ v2_job_content = NoNode
    /\ v2_sleeps = <<>>
    /\ v2_raised = <<>>
    /\ v2_fb = NoFb
    /\ v2_html_content = NoHtmlContent

(* the scenarios that are not running *)
NoRepeat == RepeatInit /\ rp_stub = <<EmptyLine>>
NoPool == PoolInit
NoSessions == ss_req = [r \in Sessions |-> Session("v2", 0, "done", 0, NoHandle, NoHandle, FALSE)]
                 /\ ss_users = [h \in {} |-> {}]
NoRequest ==
    /\ EngineInit /\ V1Init /\ V2Init
    /\ max_retries = 0 /\ output_format = "text" /\ ~stealth

(* One request: served by v1 (with its max_retries) or by v2 (with its       *)
(* output_format and stealth); the inputs of the other version are fixed.    *)
Init ==
    /\ api \in {"v1", "v2"}
    /\ EngineInit
    /\ V1Init
    /\ V2Init
    /\ NoRepeat /\ NoPool /\ NoSessions /\ NoService
    /\ api = "v1" => output_format = "text" /\ ~stealth
    /\ api = "v2" => max_retries = 0

Next == V1Next \/ V2Next

Spec == Init /\ [][Next]_vars

(* The v2 text path called MaxCalls times, one call after the other, against *)
(* one extraction stub                                                       *)
InitRepeat ==
    /\ api = "v2_repeat"
    /\ EngineInit
    /\ V1Init
    /\ V2Init
    /\ RepeatInit
    /\ rp_stub \in Texts
    /\ max_retries = 0 /\ ~stealth
    /\ NoPool /\ NoSessions /\ NoService

RepeatSpec == InitRepeat /\ [][V2CallOnStub]_vars

(* MaxRequests v2 requests running concurrently, each reaching its           *)
(* _extract_content_async.  A thread of the pool that can take a call does,  *)
(* and _extract_with_trafilatura returns.                                    *)
InitPool ==
    /\ api = "v2_pool"
    /\ NoRequest /\ NoRepeat /\ NoSessions /\ NoService
    /\ PoolInit

PoolSpec ==
    /\ InitPool /\ [][PoolNext]_vars
    /\ WF_vars(WorkerStart)
    /\ \A r \in Requests : WF_vars(WorkerFinish(r))

(* MaxSessions requests, v1 or v2, running concurrently *)
InitSessions ==
    /\ api = "sessions"
    /\ NoRequest /\ NoRepeat /\ NoPool /\ NoService
    /\ SessInit

SessionSpec == InitSessions /\ [][SessNext]_vars

(* One page intercepting up to MaxIntercepts requests *)
InitRoute ==
    /\ api = "v2_route"
    /\ NoRequest /\ NoRepeat /\ NoPool /\ NoSessions /\ NoService

RouteSpec == InitRoute /\ [][HandleRoute]_vars

(* The service from start-up to shut-down, serving one get_network_logs      *)
(* request while it is up                                                    *)
InitService ==
    /\ api = "service"
    /\ NoRequest /\ NoRepeat /\ NoPool /\ NoSessions /\ NoService

ServiceSpec == InitService /\ [][ServiceNext]_vars

(* The scheduler never abandons a request: every await completes (each       *)
(* browser call carries its own timeout) and the coroutine is resumed.       *)
FairSpec == Spec /\ WF_vars(Next)

(* the same for the v1 requests alone *)
InitV1 == Init /\ api = "v1"
V1FairSpec == InitV1 /\ [][V1Next]_vars /\ WF_vars(V1Next)

-----------------------------------------------------------------------------
(* Properties *)

V2SurfacedStatus ==
    IF v2_pc = "except" THEN v2_exc.status
    ELSE IF v2_outcome.kind = "raised" /\ v2_outcome.exc.cls = "HTTPException"
    THEN v2_outcome.exc.status
    ELSE 0
V2Classified == api = "v2" /\ "classify" \in StagesRun
NoExtractionRun == StagesRun \cap ExtractionStages = {}

\* C1: v2 get_page_content - whenever the call has ended and a browsing
\* context was created for it, that context was closed exactly once (one
\* context.close() call was issued and the context is not open).
C1_ContextClosedExactlyOnce ==
    (api = "v2" /\ v2_pc = "done" /\ v2_context # 0)
        => (v2_ctxCloseCalls = 1 /\ v2_context \notin ctxOpen)

\* C2: v1 run - whenever an attempt has been cleaned up, and in particular
\* when run has returned or raised, no context and no page created by the
\* request is open, also when page.close() raised.
C2_NoSessionLeftOpen ==
    (api = "v1" /\ v1_pc \in {"backoff", "loop", "done"})
        => (ctxOpen = {} /\ pageOpen = {})

C2_Witness ==
    /\ api = "v1" /\ v1_pc = "done"
    /\ v1_result.kind = "html"
    /\ v1_page # 0 /\ v1_closeRaised

\* C3: v2 get_page_content ends either by returning content or by raising an
\* HTTPException whose status is 404, 502, 408, 204 or 500; no other exception
\* reaches the caller, whatever the engines and the closing of the session did.
C3_TypedOutcome ==
    (api = "v2" /\ v2_pc = "done")
        => \/ v2_outcome.kind = "content"
           \/ /\ v2_outcome.kind = "raised"
              /\ v2_outcome.exc.cls = "HTTPException"
              /\ v2_outcome.exc.status \in
                    {HTTP_404_NOT_FOUND, HTTP_502_BAD_GATEWAY, HTTP_408_REQUEST_TIMEOUT,
                     HTTP_204_NO_CONTENT, HTTP_500_INTERNAL_SERVER_ERROR}

C3_Witness ==
    /\ api = "v2" /\ v2_pc = "done"
    /\ v2_outcome.kind = "raised"
    /\ v2_outcome.exc.status = HTTP_500_INTERNAL_SERVER_ERROR
    /\ v2_pageCloseCalls = 1 /\ v2_ctxCloseCalls = 0

\* C4: v2 - after a commit with status 404 whose rendered body text is shorter
\* than 300 characters and contains not-found phrasing, the classifier raises
\* NotFound (404), the request ends with it, and no extraction stage runs.
C4_Case ==
    /\ V2Classified
    /\ v2_status_code = 404
    /\ v2_bodyText.len < RealNotFoundLen
    /\ v2_bodyText.notFound

C4_Real404IsNotFound ==
    C4_Case =>
        /\ v2_hardError
        /\ NoExtractionRun
        /\ V2SurfacedStatus = HTTP_404_NOT_FOUND
        /\ v2_outcome.kind # "content"

C4_Witness == C4_Case /\ ~v2_evalRaised /\ v2_bodyText.jobTerm /\ v2_pc = "done"

\* C5 (as claimed): v2 - after a commit with status 404 whose rendered body
\* text is longer than 300 characters and contains a positive signal term, the
\* classifier raises no failure.
C5_Case ==
    /\ V2Classified
    /\ v2_status_code = 404
    /\ v2_bodyText.len > RealNotFoundLen
    /\ v2_bodyText.jobTerm

C6_Substantial == v2_bodyText.len >= RealNotFoundLen /\ v2_bodyText.jobTerm

C6_Original ==
    (V2Classified /\ IsHttpError(v2_status_code) /\ ~C6_Substantial)
        => (v2_hardError /\ NoExtractionRun)

\* C6 (amended): after a commit with status >= 400 the pipeline proceeds to
\* extraction exactly when the classifier's script ran without raising and
\* either the text has at least 300 characters and contains a positive signal
\* term, or the text is shorter than 300 characters and contains no not-found
\* phrasing; in every other case the request ends with a hard error (404 or
\* 502) and no extraction is attempted.
C6_Soft ==
    /\ ~v2_evalRaised
    /\ \/ C6_Substantial
       \/ v2_bodyText.len < RealNotFoundLen /\ ~v2_bodyText.notFound

C6_ProceedsExactlyWhenSoft ==
    (api = "v2" /\ IsHttpError(v2_status_code)) =>
        /\ ~NoExtractionRun => V2Classified /\ C6_Soft
        /\ "scroll" \in StagesRun => V2Classified
        /\ V2Classified =>
              /\ C6_Soft <=> ~v2_hardError
              /\ ~C6_Soft =>
                    /\ NoExtractionRun
                    /\ V2SurfacedStatus \in {HTTP_404_NOT_FOUND, HTTP_502_BAD_GATEWAY}
              /\ (C6_Soft /\ v2_pc \in {"except", "finally", "done"}) => ~NoExtractionRun

C6_Witness ==
    /\ V2Classified /\ v2_status_code = 500 /\ ~v2_evalRaised
    /\ v2_bodyText.len = 0
    /\ v2_pc = "done" /\ ~NoExtractionRun

\* C7: v2 - the hard error the classifier declares for a committed status
\* s >= 400 surfaces as 404 exactly when s = 404 and as 502 for every other
\* s >= 400; a request whose committed status is below 400 ends with neither.
C7_StatusMapping ==
    api = "v2" =>
        /\ v2_hardError =>
              /\ IsHttpError(v2_status_code)
              /\ V2SurfacedStatus =
                    (IF v2_status_code = 404 THEN HTTP_404_NOT_FOUND
                                             ELSE HTTP_502_BAD_GATEWAY)
        /\ V2SurfacedStatus = HTTP_404_NOT_FOUND => v2_hardError /\ v2_status_code = 404
        /\ V2SurfacedStatus = HTTP_502_BAD_GATEWAY =>
              v2_hardError /\ IsHttpError(v2_status_code) /\ v2_status_code # 404
        /\ ~IsHttpError(v2_status_code) =>
              V2SurfacedStatus \notin {HTTP_404_NOT_FOUND, HTTP_502_BAD_GATEWAY}

C7_Witness ==
    /\ api = "v2" /\ v2_pc = "done" /\ v2_hardError
    /\ v2_status_code = 500
    /\ V2SurfacedStatus = HTTP_502_BAD_GATEWAY

\* C8: v1 run - once navigation has raised a hard network error (name not
\* resolved, connection refused) in attempt h, no further attempt is started,
\* no new session is created and no backoff sleep is performed.
C8_HardErrorAborts ==
    (api = "v1" /\ v1_firstHard # NoAttempt) =>
        /\ v1_started = v1_firstHard + 1
        /\ Len(v1_sleeps) = v1_firstHard
        /\ ctxOpen \subseteq {v1_firstHard + 1}

\* C9 (as claimed): v1 - with an engine that times out on every strategy
\* before the last and commits on the last, the last strategy is attempted and
\* the HTML the navigation returns is the one read after that commit, within
\* max_retries retries.
LastStrategy == Len(wait_strategies)
TimeoutThenCommit ==
    v1_plan = [i \in 1..LastStrategy |-> IF i < LastStrategy THEN "timeout" ELSE "commit"]
V1NavEnded == v1_pc \in {"check_len", "except", "cleanup"}
GotosMade == { v1_gotos[i] : i \in 1..Len(v1_gotos) }

C9_Original ==
    (api = "v1" /\ TimeoutThenCommit /\ V1NavEnded) =>
        /\ LastStrategy \in GotosMade
        /\ v1_html # NoHtml =>
              v1_html.kind = "committed" /\ v1_html.strategy = LastStrategy
        /\ v1_started <= max_retries + 1

\* C9 (amended): with such an engine, if at every timeout the read of the
\* partial DOM fails or yields no body, the last strategy is attempted and the
\* HTML returned is the one read after its commit (unless that read itself
\* times out and falls to the rescue); if the partial DOM of a timed-out
\* strategy contains a body, that partial DOM is returned and no later
\* strategy is attempted.  In either case at most max_retries retries are used.
C9_RescueBeforeLast ==
    (api = "v1" /\ TimeoutThenCommit /\ V1NavEnded) =>
        /\ (\A i \in 1..(LastStrategy - 1) : v1_rescue[i] \in {"nobody", "raised"}) =>
              /\ LastStrategy \in GotosMade
              /\ v1_gotos = [i \in 1..LastStrategy |-> i]
              /\ (v1_html # NoHtml /\ v1_rescue[LastStrategy] = "none") =>
                    v1_html.kind = "committed" /\ v1_html.strategy = LastStrategy
        /\ \A i \in 1..(LastStrategy - 1) :
              v1_rescue[i] = "body" =>
                 /\ v1_html.kind = "partial" /\ v1_html.strategy = i
                 /\ v1_gotos = [j \in 1..i |-> j]
        /\ v1_started <= max_retries + 1

C9_Witness ==
    /\ api = "v1" /\ TimeoutThenCommit /\ v1_pc = "check_len"
    /\ v1_rescue[1] = "nobody"
    /\ v1_html.kind = "committed" /\ v1_html.strategy = LastStrategy
    /\ v1_attempt = max_retries /\ max_retries > 0

\* C10: v1 run terminates; it starts at most max_retries + 1 attempts, each with
\* at most one page.goto per strategy; the terminal ScrapingError is raised
\* only after max_retries + 1 attempts were started and names that count.
C10_Safety ==
    api = "v1" =>
        /\ v1_started <= max_retries + 1
        /\ Len(v1_gotos) <= Len(wait_strategies)
        /\ \A i, j \in 1..Len(v1_gotos) : v1_gotos[i] = v1_gotos[j] => i = j
        /\ v1_result.kind = "ScrapingError" =>
              /\ v1_started = max_retries + 1
              /\ v1_result.attempts = max_retries + 1
        /\ (v1_pc = "done" /\ v1_result.kind # "html") =>
              v1_result.kind = "ScrapingError"

C10_TerminatesWithinAttempts ==
    /\ []C10_Safety
    /\ <>(api = "v1" => v1_pc = "done")

C10_Witness ==
    /\ api = "v1" /\ v1_pc = "done"
    /\ v1_result.kind = "ScrapingError"
    /\ max_retries = MaxRetries /\ v1_started = MaxRetries + 1

\* C11: v1 - after failed attempt number k that is not the last allowed one the
\* controller sleeps exactly 2^k seconds (1, 2, 4, ...: the first wait is 1 and
\* each later wait doubles the one before), then the next attempt starts with
\* no session bound, opens a context that is not open yet and navigates from
\* the first strategy; nothing is slept after the last allowed attempt nor
\* after a successful one.
C11_Step ==
    /\ (v1_pc = "backoff" /\ v1_pc' = "loop") =>
          /\ v1_result.kind # "html"
          /\ IF v1_attempt < max_retries
             THEN /\ Len(v1_sleeps) = v1_attempt
                  /\ Len(v1_sleeps') = v1_attempt + 1
                  /\ SubSeq(v1_sleeps', 1, v1_attempt) = v1_sleeps
                  /\ v1_sleeps'[v1_attempt + 1] =
                        IF v1_attempt = 0 THEN 1 ELSE 2 * v1_sleeps[v1_attempt]
             ELSE v1_sleeps' = v1_sleeps
          /\ v1_attempt' = v1_attempt + 1
          /\ v1_context' = 0 /\ v1_page' = 0
    /\ v1_sleeps' # v1_sleeps => v1_pc = "backoff"
    /\ v1_result'.kind = "html" => v1_sleeps' = v1_sleeps
    /\ (v1_pc = "new_context" /\ v1_pc' = "route") =>
          /\ ctxOpen = {}
          /\ v1_context' \notin ctxOpen /\ v1_context' \in ctxOpen'
    /\ (v1_pc = "stealth" /\ v1_pc' = "goto") => v1_strategy' = 1 /\ v1_gotos' = <<>>

C11_BackoffDoubles == [][api = "v1" => C11_Step]_vars

C11_Witness ==
    /\ api = "v1" /\ v1_pc = "goto" /\ v1_gotos = <<>>
    /\ v1_attempt = 2 /\ v1_sleeps = <<1, 2>>

\* C12: v2 - whenever the text extraction engine returned a result that is
\* empty or shorter than 50 characters (lengths taken after trimming, as
\* get_page_content takes them), nothing is returned or raised before the
\* generic DOM fallback is invoked; and once the fallback returned a non-empty
\* result, that result (and no other) is what the request returns.
C12_PrimaryShort == v2_primary # NoPrimary /\ v2_primary < 50
C12_FallbackOnShortPrimary ==
    api = "v2" =>
        /\ C12_PrimaryShort =>
              \/ v2_pc = "fallback" /\ v2_outcome = V2NoOutcome /\ v2_exc = NoExc
              \/ "fallback" \in StagesRun
        /\ (v2_primary # NoPrimary /\ ~C12_PrimaryShort) => "fallback" \notin StagesRun
        /\ v2_fallback > 0 =>
              /\ v2_pc \in {"finally", "done"}
              /\ v2_outcome = V2Content(v2_fallback, "GenericFallback")

C12_Witness ==
    /\ api = "v2" /\ v2_pc = "done"
    /\ v2_primary = 49 /\ v2_fallback = 50
    /\ v2_outcome = V2Content(50, "GenericFallback")

\* C13: v2 - content is returned as the terminal result only if it is non-empty
\* and at least 50 characters long; a stage result below that length is never
\* returned: after a short primary result the fallback runs, and a fallback
\* result that is also below that length ends the request with the 204
\* no-content-extracted failure.
C13_ThresholdedContentOnly ==
    api = "v2" =>
        /\ v2_outcome.kind = "content" => v2_outcome.len >= 50
        /\ (v2_primary # NoPrimary /\ v2_primary < 50) =>
              v2_outcome.source # "PrimaryEngine"
        /\ (v2_fallback # NoFallback /\ v2_fallback < 50) =>
              /\ v2_outcome.kind # "content"
              /\ V2SurfacedStatus = HTTP_204_NO_CONTENT

\* C17: v2 - the stages of a request run one after another in the order
\* session, navigation, classification, readiness, scroll, extraction; for a
\* status >= 400 the classifier has decided on a hard error before the
\* readiness detector starts waiting on the page.
StagesInOrder(order) ==
    \A i, j \in 1..Len(v2_stages) :
        i < j =>
           \E a, b \in 1..Len(order) :
              /\ order[a] = v2_stages[i] /\ order[b] = v2_stages[j]
              /\ a < b \/ (a = b /\ v2_stages[i] = "navigate")
C17_ClassifierBeforeReadiness ==
    api = "v2" =>
        /\ StagesInOrder(<<"session", "navigate", "classify", "readiness", "scroll",
                           "clean_dom", "job_extract", "serialize", "extract",
                           "fallback">>)
        /\ v2_hardError => "readiness" \notin StagesRun

\* C18: v2 - a failure of the readiness detector or of one of its sub-checks,
\* of the scroll sweep or of the DOM cleaning script never propagates: such a
\* step raises nothing, leaves the request's outcome alone and hands over to
\* the stage that follows a completed sub-step (the next sub-check or the
\* detector's return; the classifier or the scroll; the DOM cleaning; the
\* extraction); so the failure a request ends with is never one raised in a
\* best-effort stage.
BestEffortStages == {"readiness", "scroll", "clean_dom"}
C18_Step ==
    /\ v2_pc \in {"render", "rendered", "scroll", "clean_dom"} =>
          /\ v2_exc' = NoExc
          /\ v2_outcome' = v2_outcome
    /\ v2_pc = "render" => v2_pc' \in {"render", "rendered"}
    /\ v2_pc = "rendered" =>
          v2_pc' = IF v2_status_code >= 400 THEN "check_404" ELSE "scroll"
    /\ v2_pc = "scroll" => v2_pc' = "clean_dom"
    /\ v2_pc = "clean_dom" =>
          v2_pc' = IF output_format = "text" THEN "job_extract" ELSE "content"
C18_RaisedElsewhere ==
    (v2_pc = "except" \/ v2_outcome.kind = "raised") =>
        v2_stages[Len(v2_stages)] \notin BestEffortStages
C18_BestEffortNeverPropagates ==
    /\ [][api = "v2" => C18_Step]_vars
    /\ [](api = "v2" => C18_RaisedElsewhere)

C18_Witness ==
    /\ api = "v2" /\ v2_pc = "done" /\ v2_swallowed
    /\ v2_outcome.kind = "content" /\ v2_outcome.source = "PrimaryEngine"

\* C20: v2, text mode - if any selector of JOB_CONTENT_SELECTORS matches a node
\* whose text is longer than 200 characters, and longer than 150 once cleaned,
\* then the structural stage returns a node's text directly and the text
\* extraction engine is not called, whatever the earlier selectors match.
C20_JobStageOver ==
    /\ api = "v2" /\ output_format = "text"
    /\ v2_nodes # NoNodes
    /\ v2_pc \in {"content", "finally", "done"}
C20_AnyLongNodeIsReturned ==
    (/\ C20_JobStageOver
     /\ \E i \in 1..Len(JOB_CONTENT_SELECTORS) :
           v2_nodes[i].len > 200 /\ v2_nodes[i].cleaned > 150) =>
        /\ v2_outcome.kind = "content"
        /\ v2_outcome.source = "StructuralSelector"
        /\ v2_outcome.len > 150

\* C19: _clean_extracted_text - a paragraph of the input (a block between
\* blank lines) whose whitespace-collapsed, case-folded form is longer than 20
\* characters and equals that of an earlier paragraph of the same input does
\* not appear a second time in the output.  Stated for the inputs in which
\* that form occurs only as whole paragraphs: it then occurs at most once in
\* the output.
Occurrences(sub, seq) ==
    Cardinality({ k \in 1..(Len(seq) - Len(sub) + 1) :
                    SubSeq(seq, k, k + Len(sub) - 1) = sub })
C19_Input == SplitParagraphs(JoinLines(rp_stub), <<>>)
C19_Repeated(i, j) ==
    /\ i < j
    /\ NormalizedLen(C19_Input[j]) > 20
    /\ Normalized(C19_Input[i]) = Normalized(C19_Input[j])
    /\ Occurrences(Normalized(C19_Input[j]), Normalized(JoinLines(rp_stub))) =
          Cardinality({ k \in 1..Len(C19_Input) :
                          Normalized(C19_Input[k]) = Normalized(C19_Input[j]) })
C19_RepeatedParagraphDropped ==
    (api = "v2_repeat" /\ output_format = "text" /\ Len(rp_results) >= 1) =>
        \A i, j \in 1..Len(C19_Input) :
            C19_Repeated(i, j) =>
                Occurrences(Normalized(C19_Input[j]), Normalized(rp_results[1])) <= 1

-----------------------------------------------------------------------------
(* C14: across concurrently running v2 requests, _extract_with_trafilatura   *)
(* never runs on the event loop thread that serves the requests' browser     *)
(* waits, at most 4 such calls run at the same time, and every call that     *)
(* waits for a free thread of the pool eventually runs.                      *)
C14_OffLoopAtMostFour ==
    api = "v2_pool" =>
        /\ \A r \in Requests :
              /\ ex_pc[r] \in {"extracting", "done"} => ex_thread[r] = "ThreadPoolExecutor"
              /\ ex_thread[r] # "MainThread"
        /\ Cardinality(Extracting) <= 4

C14_ExtractionOnPoolOfFour ==
    /\ []C14_OffLoopAtMostFour
    /\ \A r \in Requests : (ex_pc[r] = "queued") ~> (ex_pc[r] = "extracting")

(* four calls run and a fifth waits for a thread *)
C14_Witness ==
    /\ api = "v2_pool"
    /\ Cardinality(Extracting) = 4
    /\ Len(_work_queue) >= 1

(* C15: for any interleaving of concurrent requests (v1 or v2), every        *)
(* request creates its own context and page, every call it issues targets    *)
(* the context and page it created itself, and no context or page is used or *)
(* closed by two requests.                                                   *)
C15_OwnSessionOnly ==
    api = "sessions" =>
        /\ \A h \in DOMAIN ss_users : ss_users[h] \subseteq {h[1]}
        /\ \A r \in Sessions :
              /\ ss_req[r].pc \in {"new_page", "page", "close"} =>
                    /\ LocalContext(r)[1] = r
                    /\ LocalContext(r) \in ctxOpen
              /\ ss_req[r].pc \in {"page", "close"} =>
                    /\ LocalPage(r)[1] = r
                    /\ LocalPage(r) \in pageOpen
              /\ ss_req[r].pc = "done" =>
                    \E h \in DOMAIN ss_users : h[1] = r /\ ss_users[h] = {r}
        /\ \A r1, r2 \in Sessions :
              (r1 # r2 /\ LocalContext(r1) # NoHandle) =>
                  /\ LocalContext(r1) # LocalContext(r2)
                  /\ LocalPage(r1) # LocalPage(r2) \/ LocalPage(r1) = NoHandle

(* a v1 request on its second attempt and a v2 request have both issued      *)
(* their page calls and not yet closed their sessions                        *)
C15_Witness ==
    /\ api = "sessions"
    /\ \E r1, r2 \in Sessions :
          /\ ss_req[r1].api = "v1" /\ ss_req[r1].attempt = 1 /\ ss_req[r1].pc = "close"
          /\ ss_req[r2].api = "v2" /\ ss_req[r2].pc = "close"
          /\ ss_users[LocalPage(r1)] = {r1} /\ ss_users[LocalPage(r2)] = {r2}
          /\ {LocalContext(r1), LocalContext(r2)} \subseteq ctxOpen

-----------------------------------------------------------------------------
(* C21: v2 _navigate_with_retry tries its strategies in list order (commit,  *)
(* then domcontentloaded); the response of the first strategy whose          *)
(* navigation does not raise is returned and no later strategy is tried; an  *)
(* error whose message names net::err_name_not_resolved or                   *)
(* net::err_connection_refused is re-raised at once, with no pause and no    *)
(* later strategy; any other error of a non-final strategy is followed by a  *)
(* 1-second pause and the next strategy; when all strategies failed the last *)
(* error is raised.                                                          *)
C21_Step ==
    /\ (v2_pc # "goto" /\ v2_pc' = "goto") => (v2_pc = "page_route" /\ v2_strategy' = 1)
    /\ v2_pc = "goto" =>
          /\ strategies[v2_strategy] =
                (IF v2_raised = <<>> THEN "commit" ELSE "domcontentloaded")
          /\ IF v2_raised' = v2_raised
             THEN /\ v2_pc' \in {"load_state", "render"}
                  /\ v2_status_code' # 0
                  /\ v2_exc' = NoExc
                  /\ v2_sleeps' = v2_sleeps
             ELSE LET e == v2_raised'[Len(v2_raised')] IN
                  IF e.msg \in {"net::ERR_NAME_NOT_RESOLVED", "net::ERR_CONNECTION_REFUSED"}
                  THEN v2_pc' = "except" /\ v2_exc' = e /\ v2_sleeps' = v2_sleeps
                  ELSE IF strategies[v2_strategy] = "commit"
                  THEN /\ v2_pc' = "goto" /\ v2_exc' = NoExc
                       /\ v2_sleeps' = Append(v2_sleeps, 1)
                       /\ v2_strategy' = v2_strategy + 1
                  ELSE v2_pc' = "except" /\ v2_exc' = e /\ v2_sleeps' = v2_sleeps

C21_NavigateWithRetry == [][api = "v2" => C21_Step]_vars

(* the second strategy returned a response after the first one failed and    *)
(* the pause was taken                                                       *)
C21_Witness ==
    /\ api = "v2" /\ v2_pc = "render"
    /\ v2_strategy = 2 /\ Len(v2_raised) = 1 /\ v2_sleeps = <<1>>

(* C26: in v2 get_page_content, when every navigation strategy ends in a     *)
(* navigation timeout of the browser engine, the caller receives             *)
(* RequestTimeout (408) and not InternalError (500).                         *)
C26_NavigationTimeoutIs408 ==
    ( /\ api = "v2" /\ v2_outcome.kind = "raised"
      /\ Len(v2_raised) = Len(strategies)
      /\ \A i \in 1..Len(v2_raised) : v2_raised[i] = PlaywrightTimeoutError )
    => v2_outcome.exc.status = 408

(* C22: in v1 _navigate_with_fallback a strategy that times out is followed  *)
(* by a read of the DOM materialized so far; a DOM that contains a body is   *)
(* returned as the attempt's result and no later strategy is tried; with no  *)
(* body, or when the read fails, the next strategy is tried; the timeout is  *)
(* raised to the retry loop only when every strategy timed out without a     *)
(* rescued body.                                                             *)
C22_InNavigation == v1_pc \in {"goto", "wait_content", "content", "rescue"}
C22_Step ==
    /\ (v1_pc = "goto" /\ v1_plan[v1_strategy] = "timeout") =>
          (v1_pc' = "rescue" /\ v1_exc' = NoExc /\ v1_html' = v1_html)
    /\ v1_pc = "rescue" =>
          LET read == v1_rescue'[v1_strategy] IN
          /\ read \in {"body", "nobody", "raised"}
          /\ read = "body" =>
                /\ v1_html'.kind = "partial" /\ v1_html'.strategy = v1_strategy
                /\ v1_html'.body /\ v1_html'.len > 0
                /\ v1_pc' = "check_len" /\ v1_exc' = NoExc
                /\ v1_gotos' = [j \in 1..v1_strategy |-> j]
          /\ read \in {"nobody", "raised"} =>
                /\ v1_html' = v1_html
                /\ IF v1_strategy < Len(wait_strategies)
                   THEN v1_pc' = "goto" /\ v1_strategy' = v1_strategy + 1 /\ v1_exc' = NoExc
                   ELSE v1_pc' = "except" /\ v1_exc' = PlaywrightTimeoutError
    /\ (C22_InNavigation /\ v1_exc' = PlaywrightTimeoutError /\ v1_exc = NoExc) =>
          /\ v1_pc = "rescue"
          /\ v1_gotos = [j \in 1..Len(wait_strategies) |-> j]
          /\ \A i \in 1..Len(wait_strategies) : v1_rescue'[i] \in {"nobody", "raised"}
    /\ \A i \in 1..Len(wait_strategies) :
          v1_rescue'[i] = "body" => Len(v1_gotos') = i

C22_RescueOnTimeout == [][api = "v1" => C22_Step]_vars

(* the first strategy timed out with no body in the DOM, the second timed    *)
(* out and its DOM with a body is the attempt's result                       *)
C22_Witness ==
    /\ api = "v1" /\ v1_pc = "check_len"
    /\ v1_rescue[1] = "nobody" /\ v1_rescue[2] = "body"
    /\ v1_html.kind = "partial" /\ v1_html.strategy = 2

(* C23: v2 _wait_for_content_render makes its sub-checks in the order        *)
(* network-idle wait, job selectors in list order, generic selectors in list *)
(* order, visible-text-length wait; it returns True at the first selector or *)
(* text-length check that succeeds, running no later check, and False only   *)
(* if every selector check and the text-length check failed; the outcome of  *)
(* the network-idle wait never affects the value.                            *)
C23_Check(k) ==
    IF k = 1 THEN "networkidle"
    ELSE IF k <= 1 + Len(JOB_CONTENT_SELECTORS) THEN JOB_CONTENT_SELECTORS[k - 1]
    ELSE IF k <= 1 + Len(JOB_CONTENT_SELECTORS) + Len(GENERIC_CONTENT_SELECTORS)
         THEN GENERIC_CONTENT_SELECTORS[k - 1 - Len(JOB_CONTENT_SELECTORS)]
    ELSE "innerText.length > 300"
C23_Last == 2 + Len(JOB_CONTENT_SELECTORS) + Len(GENERIC_CONTENT_SELECTORS)
C23_Step ==
    /\ (v2_pc # "render" /\ v2_pc' = "render") => v2_check' = 0
    /\ v2_pc = "rendered" => (v2_pc' # "render" /\ v2_check' = 0)
    /\ v2_pc = "render" =>
          LET k == v2_check + 1 IN
          /\ v2_check' = k /\ k <= C23_Last
          /\ RenderChecks[k] = C23_Check(k)
          /\ v2_exc' = NoExc
          /\ IF k = 1
             THEN v2_found' = "none" /\ v2_pc' = "render"
             ELSE \/ /\ v2_found' = "True" /\ v2_pc' = "rendered"
                     /\ v2_swallowed' = v2_swallowed
                  \/ /\ k < C23_Last /\ v2_found' = "none" /\ v2_pc' = "render"
                     /\ v2_swallowed'
                  \/ /\ k = C23_Last /\ v2_found' = "False" /\ v2_pc' = "rendered"
                     /\ v2_swallowed'

C23_RenderChecksInOrder == [][api = "v2" => C23_Step]_vars

(* every job selector failed and the first generic selector was found *)
C23_Witness ==
    /\ api = "v2" /\ v2_pc = "rendered" /\ v2_found = "True"
    /\ v2_check = 2 + Len(JOB_CONTENT_SELECTORS)
    /\ RenderChecks[v2_check] = "article"
    /\ v2_swallowed

C25_In(line) == Cardinality({ k \in 1..Len(rp_stub) : Strip(rp_stub[k]) = line })
C25_Out(line) == Cardinality({ k \in 1..Len(rp_results[1]) : rp_results[1][k] = line })
C25_Kept(line) == ~line.skip /\ (line.alpha \/ line.len <= 20)
C28_OneOpenSession ==
    api = "v1" =>
        /\ Cardinality(ctxOpen) <= 1
        /\ ctxOpen \subseteq {v1_attempt + 1}
        /\ pageOpen \subseteq ctxOpen
        /\ v1_context \in {0, v1_attempt + 1}
        /\ v1_page \in {0, v1_context}
        /\ v1_pc \in {"backoff", "loop", "new_context", "done"} => ctxOpen = {}

(* the second attempt navigates in its own session, the first one's is gone *)
C28_Witness ==
    /\ api = "v1" /\ v1_pc = "goto"
    /\ v1_attempt = 1 /\ v1_sleeps = <<1>>
    /\ ctxOpen = {2} /\ v1_context = 2 /\ v1_page = 2

(* C27: _handle_route resolves every intercepted request exactly once, by    *)
(* abort or by continue; it aborts exactly the requests whose target domain  *)
(* is on the deny-list and lets every other request through, also a          *)
(* first-party request whose path or query merely mentions a deny-listed     *)
(* name.                                                                     *)
C27_TargetDomain(u) == Lower(u.host[Len(u.host)])
C27_AbortsExactlyDeniedDomains ==
    api = "v2_route" =>
        \A i \in 1..Len(rt_log) :
            LET calls == rt_log[i].calls IN
            /\ Len(calls) = 1
            /\ calls[1] \in {"abort", "continue_"}
            /\ calls[1] = "abort" <=> C27_TargetDomain(rt_log[i].url) \in BLOCKED_URL_PATTERNS

(* C29: lifespan has stopped every Playwright driver it started and closed   *)
(* every browser it launched by the time it exits, on normal shutdown, when  *)
(* the launch fails after the driver was started and when closing the        *)
(* browser raises; the browser is closed before the driver is stopped, and   *)
(* neither is stopped while the application is serving.                      *)
C29_LifespanReleasesAll ==
    api = "service" =>
        /\ ls_pc = "exited" => (ls_playwright # "started" /\ ls_browser # "open")
        /\ ls_playwright = "stopped" => ls_browser # "open"
        /\ ls_calls \in {<<>>, <<"browser.close">>, <<"browser.close", "playwright.stop">>}
        /\ (ls_pc = "serving" \/ nl_pc \notin {"idle", "done"}) =>
              (ls_playwright = "started" /\ ls_browser = "open" /\ ls_calls = <<>>)

(* C30: in get_network_logs, for any interleaving of console, request and    *)
(* response events (include_body false or true), the entries of the returned *)
(* sequence are in the order the events were emitted, every event emitted    *)
(* before the report is built is in it, and total_logs is the number of      *)
(* returned entries.                                                         *)
C30_LogOrderedAndComplete ==
    (api = "service" /\ nl_report # NoReport) =>
        /\ nl_report.logs = nl_emitted
        /\ nl_report.total_logs = Len(nl_report.logs)

(* C31: in v2 get_page_content, when the serialized DOM is empty or shorter  *)
(* than 100 characters after trimming, the request ends with the no-content  *)
(* failure (204) without a call of the text extraction engine and without    *)
(* the generic DOM fallback.                                                 *)
C31_ShortHtml == api = "v2" /\ v2_html_content # NoHtmlContent /\ v2_html_content < 100
C31_ShortHtmlIsNoContent ==
    C31_ShortHtml =>
        /\ v2_pc \in {"except", "finally", "done"}
        /\ V2SurfacedStatus = 204
        /\ v2_outcome.kind # "content"
        /\ StagesRun \cap {"extract", "fallback"} = {}
        /\ v2_primary = NoPrimary /\ v2_fallback = NoFallback /\ v2_fb = NoFb

(* a serialized DOM of 99 characters ended the request with 204 *)
C31_Witness ==
    /\ C31_ShortHtml /\ v2_html_content = 99
    /\ v2_pc = "done" /\ v2_outcome.kind = "raised" /\ v2_outcome.exc.status = 204

(* C32: v1 run returns HTML only when its trimmed length exceeds 500; an     *)
(* attempt whose navigation produced shorter HTML (a rescued partial DOM     *)
(* included) raises, is recorded as the last exception, closes its session   *)
(* and goes to the same backoff as a timeout: a sleep of 2**attempt when an  *)
(* attempt remains, then the next iteration.                                 *)
C32_TooShort == Exc("ScrapingError", "Retrieved content too short")
C32_ReturnedIsLong ==
    (api = "v1" /\ v1_result.kind = "html") => v1_result.html.len > 500
C32_ShortFails ==
    (api = "v1" /\ v1_pc = "check_len" /\ v1_html.len <= 500) =>
        /\ v1_pc' = "except" /\ v1_exc' = C32_TooShort
        /\ v1_result' = v1_result
C32_FailureIsRecorded ==
    (api = "v1" /\ v1_pc = "except") =>
        /\ v1_pc' = "cleanup" /\ v1_last_exception' = v1_exc
        /\ v1_result' = v1_result
C32_FailureClosesSession ==
    (api = "v1" /\ v1_pc = "cleanup" /\ v1_result.kind # "html") =>
        /\ v1_pc' = "backoff"
        /\ v1_context # 0 => v1_context \notin ctxOpen'
C32_FailureBacksOff ==
    (api = "v1" /\ v1_pc = "backoff") =>
        /\ v1_pc' = "loop" /\ v1_attempt' = v1_attempt + 1
        /\ v1_sleeps' = IF v1_attempt < max_retries
                         THEN Append(v1_sleeps, 2 ^ v1_attempt)
                         ELSE v1_sleeps
C32_ShortHtmlIsFailedAttempt ==
    /\ []C32_ReturnedIsLong
    /\ [][C32_ShortFails /\ C32_FailureIsRecorded /\ C32_FailureClosesSession
           /\ C32_FailureBacksOff]_vars

(* a too-short page failed the first attempt, its session was closed, run    *)
(* slept one second and started the second attempt                           *)
C32_Witness ==
    /\ api = "v1" /\ v1_attempt = 1 /\ v1_pc = "new_context"
    /\ v1_last_exception = C32_TooShort
    /\ v1_sleeps = <<1>> /\ ctxOpen = {}

(* C33: _clean_extracted_text is idempotent: cleaning the text a call has    *)
(* returned, split into its lines again, yields that same text.              *)
C33_CleanIsIdempotent ==
    (api = "v2_repeat" /\ output_format = "text") =>
        \A i \in 1..Len(rp_results) :
            _clean_extracted_text(SplitLines(rp_results[i])).text = rp_results[i]

(* the input had one short line three times; the cleanup dropped the third   *)
(* and returned a text that is not the input                                 *)
C33_Witness ==
    /\ api = "v2_repeat" /\ output_format = "text" /\ Len(rp_results) >= 1
    /\ Cardinality({ k \in 1..Len(rp_stub) : rp_stub[k] = TitleLine }) = 3
    /\ rp_results[1] = <<TitleLine, NL, TitleLine>>
    /\ rp_results[1] # JoinLines(rp_stub)

(* C34: the lines of the output of _clean_extracted_text are, in order, some *)
(* of the trimmed non-empty lines of the input: no line is created, altered  *)
(* or moved, and no line of the output is empty.                             *)
C34_Trimmed(line) == [line EXCEPT !.form = IF @ = "padded" THEN "plain" ELSE @]
C34_InputLines ==
    SelectSeq([k \in 1..Len(rp_stub) |-> C34_Trimmed(rp_stub[k])], LAMBDA l : l.len > 0)
C34_OutputLines(i) == IF rp_results[i] = <<>> THEN <<>> ELSE SplitLines(rp_results[i])
RECURSIVE C34_IsSubsequence(_, _)
C34_IsSubsequence(a, b) ==
    IF a = <<>> THEN TRUE
    ELSE IF b = <<>> THEN FALSE
    ELSE IF a[1] = b[1] THEN C34_IsSubsequence(Tail(a), Tail(b))
    ELSE C34_IsSubsequence(a, Tail(b))
C34_OutputIsSubsequence ==
    (api = "v2_repeat" /\ output_format = "text") =>
        \A i \in 1..Len(rp_results) :
            /\ C34_IsSubsequence(C34_OutputLines(i), C34_InputLines)
            /\ \A k \in 1..Len(C34_OutputLines(i)) : C34_OutputLines(i)[k].len > 0

(* an input with a padded line, an empty line and a line a skip pattern      *)
(* matches gave an output of two lines, the padded one trimmed               *)
C34_Witness ==
    /\ api = "v2_repeat" /\ output_format = "text" /\ Len(rp_results) >= 1
    /\ Len(rp_stub) = 4
    /\ rp_stub[1].form = "padded"
    /\ \E k \in 2..4 : rp_stub[k] = EmptyLine
    /\ \E k \in 2..4 : rp_stub[k].skip
    /\ Len(C34_OutputLines(1)) = 2
    /\ C34_OutputLines(1)[1] = C34_Trimmed(rp_stub[1])

====
